---- MODULE Spec2Model ----
(***************************************************************************)
(* Model of the document-join engine of Cosmologist:                       *)
(*   src/src/lib/join.ts        buildJoinedDocument / buildNested          *)
(*   src/src/lib/transforms.ts  applySplits / applyPivots / applyTransforms*)
(*   src/src/lib/removeTable.ts removeTable                                *)
(*   src/src/lib/useHistory.ts  push / undo / redo                         *)
(*                                                                         *)
(* JSON values are records [t, n, s, a]:                                   *)
(*   t = "undef" | "null" | "n" | "s" | "arr" | "obj"                      *)
(*   n = the number (t = "n"), s = the characters of a string (t = "s"),   *)
(*   a = the elements of an array, or the [k, v] entries of an object in   *)
(*       insertion order (the order Object.keys and JSON.stringify use).   *)
(* Property names and column names are TLA+ strings; their characters,     *)
(* where the code looks inside a name (startsWith / slice), come from      *)
(* NameChars.                                                              *)
(***************************************************************************)
EXTENDS Integers, Sequences, FiniteSets, TLC

VARIABLES tables, relationships, options, phase, first, call, result, again, pure,
          history

vars == <<tables, relationships, options, phase, first, call, result, again, pure, history>>

----------------------------------------------------------------------------
(* JSON values *)

Undef == [t |-> "undef", n |-> 0, s |-> <<>>, a |-> <<>>]
Null == [t |-> "null", n |-> 0, s |-> <<>>, a |-> <<>>]
Num(i) == [t |-> "n", n |-> i, s |-> <<>>, a |-> <<>>]
Str(chars) == [t |-> "s", n |-> 0, s |-> chars, a |-> <<>>]
Arr(elems) == [t |-> "arr", n |-> 0, s |-> <<>>, a |-> elems]
Obj(entries) == [t |-> "obj", n |-> 0, s |-> <<>>, a |-> entries]

KV(key, val) == [k |-> key, v |-> val]

IsArray(v) == v.t = "arr"

\* `key in obj`
Has(o, key) == \E i \in 1..Len(o) : o[i].k = key

\* obj[key]; undefined when the key is absent
Get(o, key) ==
  IF Has(o, key) THEN o[CHOOSE i \in 1..Len(o) : o[i].k = key].v ELSE Undef

\* obj[key] = val: an existing key keeps its position, a new key goes last
Put(o, key, val) ==
  IF Has(o, key)
    THEN [i \in 1..Len(o) |-> IF o[i].k = key THEN KV(key, val) ELSE o[i]]
    ELSE Append(o, KV(key, val))

\* delete obj[key]
Del(o, key) == SelectSeq(o, LAMBDA e : e.k # key)

Keys(o) == [i \in 1..Len(o) |-> o[i].k]

InSeq(x, sq) == \E i \in 1..Len(sq) : sq[i] = x

\* the elements of an array
SetOf(sq) == {sq[k] : k \in 1..Len(sq)}

\* a === b on cell values.  Scalars compare by value, undefined === undefined
\* and null === null hold; arrays and objects compare by reference, and two
\* cells of the raw tables never share one (the raw cells drawn here are scalars).
StrictEq(a, b) == a.t \in {"undef", "null", "n", "s"} /\ a = b

\* JS truthiness of a value (`if (existing)`)
Truthy(v) ==
  CASE v.t \in {"undef", "null"} -> FALSE
    [] v.t = "n" -> v.n # 0
    [] v.t = "s" -> Len(v.s) > 0
    [] OTHER -> TRUE

----------------------------------------------------------------------------
(* Strings *)

\* The characters of every column name and pivot prefix that occurs.
NameChars ==
  [nm \in {"id", "b_id", "a_id", "val", "name", "manager_id", "dept_id",
           "sku", "p1", "q1", "p2", "q2", "p10", "pa", "p", "q", "tags"} |->
     CASE nm = "id" -> <<"i", "d">>
       [] nm = "b_id" -> <<"b", "_", "i", "d">>
       [] nm = "a_id" -> <<"a", "_", "i", "d">>
       [] nm = "val" -> <<"v", "a", "l">>
       [] nm = "name" -> <<"n", "a", "m", "e">>
       [] nm = "manager_id" -> <<"m", "a", "n", "a", "g", "e", "r", "_", "i", "d">>
       [] nm = "dept_id" -> <<"d", "e", "p", "t", "_", "i", "d">>
       [] nm = "sku" -> <<"s", "k", "u">>
       [] nm = "p1" -> <<"p", "1">>
       [] nm = "q1" -> <<"q", "1">>
       [] nm = "p2" -> <<"p", "2">>
       [] nm = "q2" -> <<"q", "2">>
       [] nm = "p10" -> <<"p", "1", "0">>
       [] nm = "pa" -> <<"p", "a">>
       [] nm = "p" -> <<"p">>
       [] nm = "q" -> <<"q">>
       [] nm = "tags" -> <<"t", "a", "g", "s">>]

Chars(nm) == NameChars[nm]

Digits == <<"0", "1", "2", "3", "4", "5", "6", "7", "8", "9">>

IsDigit(c) == InSeq(c, Digits)

DigitVal(c) == (CHOOSE i \in 1..Len(Digits) : Digits[i] = c) - 1

RECURSIVE DecimalVal(_)
DecimalVal(cs) ==
  IF Len(cs) = 0 THEN 0
  ELSE DecimalVal(SubSeq(cs, 1, Len(cs) - 1)) * 10 + DigitVal(cs[Len(cs)])

\* !isNaN(Number(s)) for the suffixes that occur: digit strings are numbers,
\* anything holding a letter is NaN.
IsNumeric(cs) == Len(cs) > 0 /\ \A i \in 1..Len(cs) : IsDigit(cs[i])

\* The collation order of the characters that occur in suffixes
\* (digits before letters, as localeCompare orders them).
CharOrder == Digits \o <<"_", "a", "b", "c", "d", "e", "g", "i", "k", "l", "m", "n",
                         "p", "q", "r", "s", "t", "u", "v">>

CharRank(c) == CHOOSE i \in 1..Len(CharOrder) : CharOrder[i] = c

\* a.localeCompare(b) < 0, = 0, > 0 as -1, 0, 1
RECURSIVE LocaleCompare(_, _)
LocaleCompare(x, y) ==
  IF Len(x) = 0 /\ Len(y) = 0 THEN 0
  ELSE IF Len(x) = 0 THEN -1
  ELSE IF Len(y) = 0 THEN 1
  ELSE IF CharRank(Head(x)) < CharRank(Head(y)) THEN -1
  ELSE IF CharRank(Head(x)) > CharRank(Head(y)) THEN 1
  ELSE LocaleCompare(Tail(x), Tail(y))

IsPrefix(p, s) == Len(p) <= Len(s) /\ SubSeq(s, 1, Len(p)) = p

WhiteSpace == {" ", "\t", "\n", "\r"}

\* s.trim()
RECURSIVE TrimLeft(_)
TrimLeft(cs) ==
  IF Len(cs) > 0 /\ Head(cs) \in WhiteSpace THEN TrimLeft(Tail(cs)) ELSE cs

RECURSIVE TrimRight(_)
TrimRight(cs) ==
  IF Len(cs) > 0 /\ cs[Len(cs)] \in WhiteSpace
    THEN TrimRight(SubSeq(cs, 1, Len(cs) - 1))
    ELSE cs

\* the pieces left untrimmed
Trim_None(cs) == cs

Trim(cs) == TrimRight(TrimLeft(cs))

\* s.split(delimiter) for a non-empty delimiter: the pieces between the
\* successive non-overlapping occurrences of the delimiter, scanning left to right
RECURSIVE SplitFrom(_, _, _)
SplitFrom(rest, delim, cur) ==
  IF Len(rest) = 0 THEN <<cur>>
  ELSE IF IsPrefix(delim, rest)
    THEN <<cur>> \o SplitFrom(SubSeq(rest, Len(delim) + 1, Len(rest)), delim, <<>>)
    ELSE SplitFrom(Tail(rest), delim, Append(cur, Head(rest)))

\* s.split(delimiter); the empty delimiter splits into single characters
StringSplit(cs, delim) ==
  IF Len(delim) = 0 THEN [i \in 1..Len(cs) |-> <<cs[i]>>]
  ELSE SplitFrom(cs, delim, <<>>)

----------------------------------------------------------------------------
(* transforms.ts *)

\* Map<suffix, columnName> as the sequence of its entries in insertion order
MapHas(m, idx) == \E i \in 1..Len(m) : m[i].idx = idx

MapGet(m, idx) == m[CHOOSE i \in 1..Len(m) : m[i].idx = idx].col

MapSet(m, idx, col) ==
  IF MapHas(m, idx)
    THEN [i \in 1..Len(m) |-> IF m[i].idx = idx THEN [idx |-> idx, col |-> col] ELSE m[i]]
    ELSE Append(m, [idx |-> idx, col |-> col])

RECURSIVE matchGroupColumnsFrom(_, _, _, _)
matchGroupColumnsFrom(allColumns, pattern, i, acc) ==
  IF i > Len(allColumns) THEN acc
  ELSE LET col == allColumns[i]
           suffix == SubSeq(Chars(col), Len(Chars(pattern)) + 1, Len(Chars(col)))
       IN matchGroupColumnsFrom(allColumns, pattern, i + 1,
            IF IsPrefix(Chars(pattern), Chars(col)) /\ Len(suffix) > 0
              THEN MapSet(acc, suffix, col)
              ELSE acc)

matchGroupColumns(allColumns, pattern) ==
  matchGroupColumnsFrom(allColumns, pattern, 1, <<>>)

\* the writes made while building go to the working object, not to the row
\* it starts from
Spread_Alias(row) == [ref |-> "row", a |-> row]

\* { ...row }: the working object is a fresh object with the row's entries, and
\* the writes that follow land on it
Spread(row) == [ref |-> "copy", a |-> row]

\* the row object after a call whose working object ended as out
RowAfter(row, out) == IF Spread(row).ref = "row" THEN out ELSE row

\* splits applied whatever table they are declared for
RECURSIVE applySplitsFrom_AnyTable(_, _, _, _)
applySplitsFrom_AnyTable(out, splits, tableId, i) ==
  IF i > Len(splits) THEN out
  ELSE applySplitsFrom_AnyTable(
         IF Get(out, splits[i].column).t = "s"
           THEN Put(out, splits[i].column,
                    Arr([j \in 1..Len(StringSplit(Get(out, splits[i].column).s,
                                                  splits[i].delimiter)) |->
                           Str(Trim(StringSplit(Get(out, splits[i].column).s,
                                                splits[i].delimiter)[j]))]))
           ELSE out,
         splits, tableId, i + 1)

RECURSIVE applySplitsFrom(_, _, _, _)
applySplitsFrom(out, splits, tableId, i) ==
  IF i > Len(splits) THEN out
  ELSE LET split == splits[i]
           val == Get(out, split.column)
       IN applySplitsFrom(
            IF split.tableId = tableId /\ val.t = "s"
              THEN Put(out, split.column,
                       Arr([j \in 1..Len(StringSplit(val.s, split.delimiter)) |->
                              Str(Trim(StringSplit(val.s, split.delimiter)[j]))]))
              ELSE out,
            splits, tableId, i + 1)

applySplits(row, splits, tableId) == applySplitsFrom(row, splits, tableId, 1)

\* the comparator of sortedIndices: numeric when both parse, else localeCompare
CompareIndices(x, y) ==
  IF IsNumeric(x) /\ IsNumeric(y) THEN DecimalVal(x) - DecimalVal(y)
  ELSE LocaleCompare(x, y)

\* insert x into the sorted sequence sq behind every element that is not greater
RECURSIVE InsertSorted(_, _)
InsertSorted(sq, x) ==
  IF Len(sq) = 0 THEN <<x>>
  ELSE IF CompareIndices(sq[Len(sq)], x) > 0
    THEN Append(InsertSorted(SubSeq(sq, 1, Len(sq) - 1), x), sq[Len(sq)])
    ELSE Append(sq, x)

RECURSIVE SortIndices(_)
SortIndices(sq) ==
  IF Len(sq) = 0 THEN <<>>
  ELSE InsertSorted(SortIndices(SubSeq(sq, 1, Len(sq) - 1)), sq[Len(sq)])

\* the Set of the suffixes of all groups, in insertion order
RECURSIVE AllIndices(_, _, _, _)
AllIndices(groupMaps, g, i, acc) ==
  IF g > Len(groupMaps) THEN acc
  ELSE IF i > Len(groupMaps[g]) THEN AllIndices(groupMaps, g + 1, 1, acc)
  ELSE AllIndices(groupMaps, g, i + 1,
         IF InSeq(groupMaps[g][i].idx, acc) THEN acc ELSE Append(acc, groupMaps[g][i].idx))

GroupMaps(groups, allColumns) ==
  [g \in 1..Len(groups) |-> matchGroupColumns(allColumns, groups[g].pattern)]

SortedIndices(groups, allColumns) ==
  SortIndices(AllIndices(GroupMaps(groups, allColumns), 1, 1, <<>>))

\* one element of the pivot array: the groups' values at suffix idx
RECURSIVE PivotElement(_, _, _, _, _, _)
PivotElement(out, groups, groupMaps, idx, g, obj) ==
  IF g > Len(groups) THEN obj
  ELSE PivotElement(out, groups, groupMaps, idx, g + 1,
         IF MapHas(groupMaps[g], idx) /\ Has(out, MapGet(groupMaps[g], idx))
           THEN Put(obj, groups[g].propertyName, Get(out, MapGet(groupMaps[g], idx)))
           ELSE obj)

\* an array with an empty object for an index that has no value
RECURSIVE PivotArray_KeepEmpty(_, _, _, _, _, _)
PivotArray_KeepEmpty(out, groups, groupMaps, sorted, i, arr) ==
  IF i > Len(sorted) THEN arr
  ELSE PivotArray_KeepEmpty(out, groups, groupMaps, sorted, i + 1,
         Append(arr, Obj(PivotElement(out, groups, groupMaps, sorted[i], 1, <<>>))))

RECURSIVE PivotArray(_, _, _, _, _, _)
PivotArray(out, groups, groupMaps, sorted, i, arr) ==
  IF i > Len(sorted) THEN arr
  ELSE LET obj == PivotElement(out, groups, groupMaps, sorted[i], 1, <<>>)
       IN PivotArray(out, groups, groupMaps, sorted, i + 1,
            IF Len(obj) > 0 THEN Append(arr, Obj(obj)) ELSE arr)

PivotedColumns(groupMaps) ==
  UNION {{groupMaps[g][i].col : i \in 1..Len(groupMaps[g])} : g \in 1..Len(groupMaps)}

applyPivot(out, pivot, allColumns) ==
  LET groupMaps == GroupMaps(pivot.groups, allColumns)
      sorted == SortedIndices(pivot.groups, allColumns)
      arr == PivotArray(out, pivot.groups, groupMaps, sorted, 1, <<>>)
      removed == SelectSeq(out, LAMBDA e : e.k \notin PivotedColumns(groupMaps))
  IN Put(removed, pivot.arrayName, Arr(arr))

RECURSIVE applyPivotsFrom(_, _, _, _, _)
applyPivotsFrom(out, pivots, tableId, allColumns, i) ==
  IF i > Len(pivots) THEN out
  ELSE applyPivotsFrom(
         IF pivots[i].tableId = tableId THEN applyPivot(out, pivots[i], allColumns) ELSE out,
         pivots, tableId, allColumns, i + 1)

applyPivots(row, pivots, tableId, allColumns) ==
  applyPivotsFrom(row, pivots, tableId, allColumns, 1)

\* the transforms in the other order: pivot, then split
applyTransforms_PivotFirst(row, tableId, allColumns, splits, pivots) ==
  applySplits(applyPivots(row, pivots, tableId, allColumns), splits, tableId)

applyTransforms(row, tableId, allColumns, splits, pivots) ==
  applyPivots(applySplits(row, splits, tableId), pivots, tableId, allColumns)

----------------------------------------------------------------------------
(* join.ts: buildJoinedDocument *)

\* An optional field (x?: T) is <<>> when undefined and <<x>> when set.
None == <<>>
Some(x) == <<x>>
IsSome(o) == Len(o) > 0
The(o) == o[1]

\* Deepest call stack explored; a run that needs more ends as a stack overflow.
MaxStack == 12

\* new Map(tables.map((t) => [t.id, t])): the last table of an id wins
HasTable(tbls, id) == \E i \in 1..Len(tbls) : tbls[i].id = id

TableGet(tbls, id) ==
  tbls[CHOOSE i \in 1..Len(tbls) :
         tbls[i].id = id /\ \A j \in (i + 1)..Len(tbls) : tbls[j].id # id]

\* a visited set kept from the call before instead of a fresh one
InitialVisited_Stale == result.visited

\* const visited = new Set<string>()
InitialVisited == {}

\* rowKey + depthKey: `${tableId}:${idx}:${depth}`.  Every row buildNested is
\* given is an element of its table's rows, so indexOf finds it.
DepthKey(tableId, rowIdx, depth) == <<tableId, rowIdx, depth>>

\* JSON.stringify as the key of uniqBy: properties holding undefined are left
\* out, undefined inside an array is written as null
RECURSIVE Stringify(_)
Stringify(v) ==
  CASE v.t = "arr" ->
         Arr([i \in 1..Len(v.a) |->
                IF v.a[i].t = "undef" THEN Null ELSE Stringify(v.a[i])])
    [] v.t = "obj" ->
         LET kept == SelectSeq(v.a, LAMBDA e : e.v.t # "undef")
         IN Obj([i \in 1..Len(kept) |-> KV(kept[i].k, Stringify(kept[i].v))])
    [] OTHER -> v

RECURSIVE uniqByFrom(_, _, _)
uniqByFrom(arr, i, acc) ==
  IF i > Len(arr) THEN acc
  ELSE uniqByFrom(arr, i + 1,
         IF \E j \in 1..Len(acc) : Stringify(acc[j]) = Stringify(arr[i])
           THEN acc
           ELSE Append(acc, arr[i]))

\* every node kept, equal or not
uniqBy_KeepAll(arr) == arr

\* uniqBy(arr, (node) => JSON.stringify(node))
uniqBy(arr) == uniqByFrom(arr, 1, <<>>)

\* columnsFilter?.[tableId]
FilterCols(in, tableId) ==
  IF tableId \in DOMAIN in.columnsFilter THEN in.columnsFilter[tableId] ELSE <<>>

\* a projection that emits null for a listed column the row lacks
RECURSIVE PickCols_Null(_, _, _, _)
PickCols_Null(row, cols, i, acc) ==
  IF i > Len(cols) THEN acc
  ELSE PickCols_Null(row, cols, i + 1,
         Put(acc, cols[i], IF Has(row, cols[i]) THEN Get(row, cols[i]) ELSE Null))

RECURSIVE PickCols(_, _, _, _)
PickCols(row, cols, i, acc) ==
  IF i > Len(cols) THEN acc
  ELSE PickCols(row, cols, i + 1,
         IF Has(row, cols[i]) THEN Put(acc, cols[i], Get(row, cols[i])) ELSE acc)

projectRow(in, tableId, row) ==
  LET cols == FilterCols(in, tableId)
      out == IF Len(cols) = 0 THEN row ELSE PickCols(row, cols, 1, <<>>)
      allColumns == IF HasTable(in.tables, tableId)
                      THEN TableGet(in.tables, tableId).columns
                      ELSE Keys(row)
  IN applyTransforms(out, tableId, allColumns, in.columnSplits, in.tablePivots)

\* the other endpoint of rel as seen from tableId
ChildTableId(rel, tableId) ==
  IF rel.sourceTableId = tableId THEN rel.targetTableId ELSE rel.sourceTableId

\* the local column taken from the declared side whatever the current table is
LocalCol_Declared(rel, tableId) == rel.sourceColumn

LocalCol(rel, tableId) ==
  IF rel.sourceTableId = tableId THEN rel.sourceColumn ELSE rel.targetColumn

RemoteCol(rel, tableId) ==
  IF rel.sourceTableId = tableId THEN rel.targetColumn ELSE rel.sourceColumn

Touches(rel, tableId) == rel.sourceTableId = tableId \/ rel.targetTableId = tableId

\* childTableId === parentId || childTableId === tableId
IsRecursive(rel, tableId, parentId) ==
  ChildTableId(rel, tableId) = tableId
    \/ (IsSome(parentId) /\ ChildTableId(rel, tableId) = The(parentId))

\* the check with another default: an undefined maxDepth allows one level
DepthBlocked_DefaultOne(rel, tableId, parentId, depth) ==
  IF IsRecursive(rel, tableId, parentId)
    THEN depth >= (IF IsSome(rel.maxDepth) THEN The(rel.maxDepth) ELSE 1)
    ELSE IsSome(parentId) /\ ChildTableId(rel, tableId) = The(parentId)

\* the `continue`s of the recursion-depth check
DepthBlocked(rel, tableId, parentId, depth) ==
  IF IsRecursive(rel, tableId, parentId)
    THEN \/ ~IsSome(rel.maxDepth)
         \/ The(rel.maxDepth) = 0
         \/ depth >= The(rel.maxDepth)
    ELSE IsSome(parentId) /\ ChildTableId(rel, tableId) = The(parentId)

\* findPivotInfo: the first pivot of the table with a group that matches col
PivotHits(in, tblId, col) ==
  LET cols == TableGet(in.tables, tblId).columns
  IN [p \in 1..Len(in.tablePivots) |->
        IF in.tablePivots[p].tableId # tblId THEN 0
        ELSE LET gs == in.tablePivots[p].groups
                 hit == {g \in 1..Len(gs) :
                           \E e \in 1..Len(matchGroupColumns(cols, gs[g].pattern)) :
                              matchGroupColumns(cols, gs[g].pattern)[e].col = col}
             IN IF hit = {} THEN 0 ELSE CHOOSE g \in hit : \A h \in hit : g <= h]

HasPivotInfo(in, tblId, col) ==
  HasTable(in.tables, tblId) /\ \E p \in 1..Len(in.tablePivots) : PivotHits(in, tblId, col)[p] > 0

findPivotInfo(in, tblId, col) ==
  LET hits == PivotHits(in, tblId, col)
      p == CHOOSE q \in 1..Len(hits) : hits[q] > 0 /\ \A r \in 1..(q - 1) : hits[r] = 0
      pivot == in.tablePivots[p]
  IN [pivot |-> pivot,
      siblingCols |-> matchGroupColumns(TableGet(in.tables, tblId).columns,
                                        pivot.groups[hits[p]].pattern)]

\* the names of the tables related to the child table (tables that exist, names
\* that are not empty)
childTableNames(in, childTableId) ==
  {TableGet(in.tables, ChildTableId(in.relationships[i], childTableId)).name :
     i \in {j \in 1..Len(in.relationships) :
              /\ Touches(in.relationships[j], childTableId)
              /\ HasTable(in.tables, ChildTableId(in.relationships[j], childTableId))}}
    \ {""}

\* a filter that lets through what a split has rewritten
filterNestedCols_KeepArrays(in, rel, childTableId, obj) ==
  IF ~IsSome(rel.includedColumns) \/ Len(The(rel.includedColumns)) = 0 THEN obj
  ELSE SelectSeq(obj, LAMBDA e :
         \/ InSeq(e.k, The(rel.includedColumns))
         \/ e.k \in childTableNames(in, childTableId)
         \/ e.v.t = "arr")

filterNestedCols(in, rel, childTableId, obj) ==
  IF ~IsSome(rel.includedColumns) \/ Len(The(rel.includedColumns)) = 0 THEN obj
  ELSE SelectSeq(obj, LAMBDA e :
         InSeq(e.k, The(rel.includedColumns)) \/ e.k \in childTableNames(in, childTableId))

\* only the first matching row (`find` for `filter`)
Matches_First(childTable, remoteCol, localValue) ==
  LET hit == {j \in 1..Len(childTable.rows) :
                StrictEq(Get(childTable.rows[j], remoteCol), localValue)}
  IN IF hit = {} THEN <<>> ELSE <<CHOOSE j \in hit : \A k \in hit : j <= k>>

\* childTable.rows.filter((r) => r[remoteCol] === localValue), as row indices
Matches(childTable, remoteCol, localValue) ==
  LET hit == {j \in 1..Len(childTable.rows) :
                StrictEq(Get(childTable.rows[j], remoteCol), localValue)}
      RECURSIVE Ordered(_)
      Ordered(n) == IF n = 0 THEN <<>>
                    ELSE IF n \in hit THEN Append(Ordered(n - 1), n) ELSE Ordered(n - 1)
  IN Ordered(Len(childTable.rows))

PropName(rel, childTable) ==
  IF IsSome(rel.propertyName) THEN The(rel.propertyName) ELSE childTable.name

\* the cardinality ignored: every relationship treated as one-to-many
RelType_Many(rel) == "one-to-many"

\* rel.type ?? 'one-to-many'
RelType(rel) == IF IsSome(rel.type) THEN The(rel.type) ELSE "one-to-many"

\* An optional override map (Record<string, V> | undefined) is None or Some of
\* a function from edge ids; m?.[id] is None when the map or the key is absent
Lookup(m, id) ==
  IF IsSome(m) /\ id \in DOMAIN The(m) THEN Some(The(m)[id]) ELSE None

\* x ?? y
Coalesce(x, y) == IF IsSome(x) THEN x ELSE y

\* the relationship of one canvas edge (the .map of toRelationshipEdges)
EdgeToRelationship(e, edgeTypes, edgeColumnFilters, edgeMaxDepth, edgePropertyNames) ==
  [sourceTableId |-> e.source,
   targetTableId |-> e.target,
   sourceColumn |-> The(Coalesce(e.sourceHandle, Some(""))),
   targetColumn |-> The(Coalesce(e.targetHandle, Some(""))),
   type |-> Coalesce(Lookup(edgeTypes, e.id), e.dataType),
   includedColumns |-> Lookup(edgeColumnFilters, e.id),
   maxDepth |-> Lookup(edgeMaxDepth, e.id),
   propertyName |-> Lookup(edgePropertyNames, e.id)]

\* a filter that keeps an edge with one handle
HasBothColumns_Either(r) == r.sourceColumn # "" \/ r.targetColumn # ""

\* .filter((e) => e.sourceColumn && e.targetColumn)
HasBothColumns(r) == r.sourceColumn # "" /\ r.targetColumn # ""

toRelationshipEdges(edges, edgeTypes, edgeColumnFilters, edgeMaxDepth, edgePropertyNames) ==
  SelectSeq([i \in 1..Len(edges) |->
               EdgeToRelationship(edges[i], edgeTypes, edgeColumnFilters,
                                  edgeMaxDepth, edgePropertyNames)],
            HasBothColumns)

\* The state one call threads through its recursion: the visited set, the
\* depth keys in the order their relationships were traversed, and whether the
\* call stack overflowed (an exception: everything after it is abandoned).
RECURSIVE buildNested(_, _, _, _, _, _, _)
RECURSIVE RelLoop(_, _, _, _, _, _, _, _, _)
RECURSIVE MatchLoop(_, _, _, _, _, _, _, _)
RECURSIVE PivotLoop(_, _, _, _, _, _, _, _, _, _, _)

\* the node of one match, filtered, behind the nodes built so far
AddNode(in, rel, childTableId, nodes, r) ==
  [nodes |-> Append(nodes, Obj(filterNestedCols(in, rel, childTableId, r.row))),
   st |-> r.st]

\* matches.map((m) => filterNestedCols(buildNested(childTableId, m, tableId, d, rel)));
\* cur holds the nodes built so far and the state
MatchLoop(in, tableId, rel, matches, i, nextDepth, cur, stack) ==
  IF i > Len(matches) \/ cur.st.over THEN cur
  ELSE MatchLoop(in, tableId, rel, matches, i + 1, nextDepth,
                 AddNode(in, rel, ChildTableId(rel, tableId), cur.nodes,
                         buildNested(in, ChildTableId(rel, tableId), matches[i],
                                     Some(tableId), nextDepth, cur.st, stack + 1)),
                 stack)

\* element[propName] = type === 'one-to-one' ? nested[0] : nested
PivotEmbed(element, propName, type, nested) ==
  Obj(IF type = "one-to-one"
        THEN Put(element.a, propName, nested[1])
        ELSE Put(element.a, propName, Arr(nested)))

\* the pivot array with element i carrying its deduplicated matches
PivotSet(pivotArray, i, propName, type, built) ==
  IF built.st.over THEN [arr |-> pivotArray, st |-> built.st]
  ELSE [arr |-> [pivotArray EXCEPT ![i] =
                   PivotEmbed(pivotArray[i], propName, type, uniqBy(built.nodes))],
        st |-> built.st]

\* for (let i = 0; i < sortedIndices.length && i < pivotArray.length; i++);
\* cur holds the pivot array and the state
PivotLoop(in, tableId, row, parentId, depth, rel, info, sorted, i, cur, stack) ==
  IF i > Len(sorted) \/ i > Len(cur.arr) \/ cur.st.over THEN cur
  ELSE IF \/ ~MapHas(info.siblingCols, sorted[i])
          \/ ~Has(row, MapGet(info.siblingCols, sorted[i]))
          \/ Len(Matches(TableGet(in.tables, ChildTableId(rel, tableId)),
                         RemoteCol(rel, tableId),
                         Get(row, MapGet(info.siblingCols, sorted[i])))) = 0
    THEN PivotLoop(in, tableId, row, parentId, depth, rel, info, sorted, i + 1, cur, stack)
  ELSE PivotLoop(in, tableId, row, parentId, depth, rel, info, sorted, i + 1,
         PivotSet(cur.arr, i,
                  PropName(rel, TableGet(in.tables, ChildTableId(rel, tableId))),
                  RelType(rel),
                  MatchLoop(in, tableId, rel,
                            Matches(TableGet(in.tables, ChildTableId(rel, tableId)),
                                    RemoteCol(rel, tableId),
                                    Get(row, MapGet(info.siblingCols, sorted[i]))),
                            1,
                            IF IsRecursive(rel, tableId, parentId) THEN depth + 1 ELSE 0,
                            [nodes |-> <<>>, st |-> cur.st], stack)),
         stack)

\* projected[arrayName] = pivotArray with the embedded elements
PivotResult(projected, arrayName, done) ==
  [row |-> Put(projected, arrayName, Arr(done.arr)), st |-> done.st]

\* the standard path's assignment of the nested nodes to projected[propName]
Embed(projected, propName, type, nested) ==
  IF type = "one-to-one" THEN Put(projected, propName, nested[1])
  ELSE IF Truthy(Get(projected, propName))
    THEN Put(projected, propName,
             Arr(uniqBy((IF IsArray(Get(projected, propName))
                           THEN Get(projected, propName).a
                           ELSE <<Get(projected, propName)>>) \o nested)))
  ELSE Put(projected, propName, Arr(nested))

StandardResult(projected, propName, type, built) ==
  IF built.st.over THEN [row |-> projected, st |-> built.st]
  ELSE [row |-> Embed(projected, propName, type, uniqBy(built.nodes)), st |-> built.st]

\* one pass of `for (const rel of rels)`
OneRel(in, tableId, row, parentId, depth, rel, projected, st, stack) ==
  IF DepthBlocked(rel, tableId, parentId, depth) THEN [row |-> projected, st |-> st]
  ELSE IF ~HasTable(in.tables, ChildTableId(rel, tableId)) THEN [row |-> projected, st |-> st]
  ELSE IF HasPivotInfo(in, tableId, LocalCol(rel, tableId))
    THEN
      IF ~IsArray(Get(projected, findPivotInfo(in, tableId, LocalCol(rel, tableId)).pivot.arrayName))
        THEN [row |-> projected, st |-> st]
      ELSE PivotResult(projected,
             findPivotInfo(in, tableId, LocalCol(rel, tableId)).pivot.arrayName,
             PivotLoop(in, tableId, row, parentId, depth, rel,
                       findPivotInfo(in, tableId, LocalCol(rel, tableId)),
                       SortedIndices(findPivotInfo(in, tableId, LocalCol(rel, tableId)).pivot.groups,
                                     TableGet(in.tables, tableId).columns),
                       1,
                       [arr |-> Get(projected,
                                    findPivotInfo(in, tableId, LocalCol(rel, tableId)).pivot.arrayName).a,
                        st |-> st],
                       stack))
  ELSE IF Len(Matches(TableGet(in.tables, ChildTableId(rel, tableId)),
                      RemoteCol(rel, tableId), Get(row, LocalCol(rel, tableId)))) = 0
    THEN [row |-> projected, st |-> st]
  ELSE StandardResult(projected,
         PropName(rel, TableGet(in.tables, ChildTableId(rel, tableId))),
         RelType(rel),
         MatchLoop(in, tableId, rel,
                   Matches(TableGet(in.tables, ChildTableId(rel, tableId)),
                           RemoteCol(rel, tableId), Get(row, LocalCol(rel, tableId))),
                   1,
                   IF IsRecursive(rel, tableId, parentId) THEN depth + 1 ELSE 0,
                   [nodes |-> <<>>, st |-> st], stack))

\* the loop leaving at the first relationship whose child table is missing
\* (`break` for `continue`)
RECURSIVE RelLoop_Break(_, _, _, _, _, _, _, _, _)
RelLoop_Break(in, tableId, row, parentId, depth, rels, i, cur, stack) ==
  IF i > Len(rels) \/ cur.st.over THEN cur
  ELSE IF ~HasTable(in.tables, ChildTableId(rels[i], tableId)) THEN cur
  ELSE RelLoop_Break(in, tableId, row, parentId, depth, rels, i + 1,
                     OneRel(in, tableId, row, parentId, depth, rels[i], cur.row, cur.st, stack),
                     stack)

\* for (const rel of rels); cur holds the projected row and the state
RelLoop(in, tableId, row, parentId, depth, rels, i, cur, stack) ==
  IF i > Len(rels) \/ cur.st.over THEN cur
  ELSE RelLoop(in, tableId, row, parentId, depth, rels, i + 1,
               OneRel(in, tableId, row, parentId, depth, rels[i], cur.row, cur.st, stack),
               stack)

\* buildNested without its visited check
RECURSIVE buildNested_NoVisited(_, _, _, _, _, _, _)
buildNested_NoVisited(in, tableId, rowIdx, parentId, depth, st, stack) ==
  IF stack > MaxStack THEN [row |-> <<>>, st |-> [st EXCEPT !.over = TRUE]]
  ELSE RelLoop(in, tableId, TableGet(in.tables, tableId).rows[rowIdx], parentId, depth,
               SelectSeq(in.relationships, LAMBDA r : Touches(r, tableId)), 1,
               [row |-> projectRow(in, tableId, TableGet(in.tables, tableId).rows[rowIdx]),
                st |-> [st EXCEPT !.log = Append(@, DepthKey(tableId, rowIdx - 1, depth))]],
               stack)

\* buildNested(tableId, row, parentId, depth); rowIdx is the row's position in
\* its table (from 1), stack the depth of the call stack
buildNested(in, tableId, rowIdx, parentId, depth, st, stack) ==
  IF stack > MaxStack THEN [row |-> <<>>, st |-> [st EXCEPT !.over = TRUE]]
  ELSE IF DepthKey(tableId, rowIdx - 1, depth) \in st.visited
    THEN [row |-> projectRow(in, tableId, TableGet(in.tables, tableId).rows[rowIdx]),
          st |-> [st EXCEPT !.hits = Append(@, DepthKey(tableId, rowIdx - 1, depth))]]
  ELSE RelLoop(in, tableId, TableGet(in.tables, tableId).rows[rowIdx], parentId, depth,
               SelectSeq(in.relationships, LAMBDA r : Touches(r, tableId)), 1,
               [row |-> projectRow(in, tableId, TableGet(in.tables, tableId).rows[rowIdx]),
                st |-> [st EXCEPT !.visited = @ \cup {DepthKey(tableId, rowIdx - 1, depth)},
                                  !.log = Append(@, DepthKey(tableId, rowIdx - 1, depth))]],
               stack)

NoDoc == Obj(<<>>)

\* a row test that also rejects index 0 (`if (!leadRowIndex)`)
HasRow_FalsyIndex(rows, leadRowIndex) == leadRowIndex \in 1..(Len(rows) - 1)

\* leadTable.rows[leadRowIndex] is a row (rows are objects, never falsy)
HasRow(rows, leadRowIndex) == leadRowIndex \in 0..(Len(rows) - 1)

\* return { [leadTable.name]: root }, or the RangeError of an exhausted stack
Outcome(name, r) ==
  IF r.st.over
    THEN [status |-> "throws", error |-> <<"RangeError", "Maximum call stack size exceeded">>,
          doc |-> NoDoc, visited |-> r.st.visited, log |-> r.st.log,
          hits |-> r.st.hits]
    ELSE [status |-> "returns", error |-> <<>>,
          doc |-> Obj(<<KV(name, Obj(r.row))>>),
          visited |-> r.st.visited, log |-> r.st.log, hits |-> r.st.hits]

\* The outcome of one call: the document returned, or the error thrown.
\* visited is what the call's visited set held when it ended, log the keys in
\* the order they were added, hits the keys found in it again, in order.
buildJoinedDocument(leadTableId, leadRowIndex, in) ==
  IF ~HasTable(in.tables, leadTableId)
    THEN [status |-> "throws", error |-> <<"Lead table not found: ", leadTableId>>,
          doc |-> NoDoc, visited |-> InitialVisited, log |-> <<>>, hits |-> <<>>]
  ELSE IF ~HasRow(TableGet(in.tables, leadTableId).rows, leadRowIndex)
    THEN [status |-> "throws", error |-> <<"Lead row not found index=", ToString(leadRowIndex)>>,
          doc |-> NoDoc, visited |-> InitialVisited, log |-> <<>>, hits |-> <<>>]
  ELSE Outcome(TableGet(in.tables, leadTableId).name,
               buildNested(in, leadTableId, leadRowIndex + 1, None, 0,
                           [visited |-> InitialVisited, log |-> <<>>, hits |-> <<>>, over |-> FALSE], 1))

----------------------------------------------------------------------------
(* The inputs: tables, candidate relationships and options *)

TableA ==
  [id |-> "a", name |-> "A", columns |-> <<"id", "b_id">>,
   rows |-> << <<KV("id", Num(1)), KV("b_id", Num(10))>>,
               <<KV("id", Num(2)), KV("b_id", Num(11))>>,
               <<KV("id", Num(3))>> >>]

TableB ==
  [id |-> "b", name |-> "B", columns |-> <<"id", "val">>,
   rows |-> << <<KV("id", Num(10)), KV("val", Str(<<"x">>))>>,
               <<KV("id", Num(10)), KV("val", Str(<<"x", ";", " ", "z">>))>>,
               <<KV("id", Num(11)), KV("val", Str(<<"y">>))>> >>]

TableC ==
  [id |-> "c", name |-> "C", columns |-> <<"id", "b_id", "a_id">>,
   rows |-> << <<KV("id", Num(100)), KV("b_id", Num(10)), KV("a_id", Num(2))>>,
               <<KV("id", Num(101)), KV("b_id", Num(11)), KV("a_id", Num(1))>> >>]

TableEmp ==
  [id |-> "emp", name |-> "Employee", columns |-> <<"id", "name", "manager_id", "dept_id">>,
   rows |-> << <<KV("id", Num(1)), KV("name", Str(<<"B", "o", "s", "s">>)),
                 KV("manager_id", Null), KV("dept_id", Num(7))>>,
               <<KV("id", Num(2)), KV("name", Str(<<"W", "o", "r", "k", "e", "r">>)),
                 KV("manager_id", Num(1)), KV("dept_id", Num(7))>>,
               <<KV("id", Num(3)), KV("name", Str(<<"I", "n", "t", "e", "r", "n">>)),
                 KV("manager_id", Num(2)), KV("dept_id", Num(8))>>,
               <<KV("id", Num(4)), KV("name", Str(<<"T", "e", "m", "p">>)),
                 KV("manager_id", Num(3)), KV("dept_id", Num(8))>> >>]

TableDept ==
  [id |-> "dept", name |-> "Dept", columns |-> <<"id">>,
   rows |-> << <<KV("id", Num(7))>>, <<KV("id", Num(8))>> >>]

TableOrders ==
  [id |-> "orders", name |-> "Orders", columns |-> <<"id", "p1", "q1", "p2", "q2">>,
   rows |-> << <<KV("id", Num(1)), KV("p1", Str(<<"A">>)), KV("q1", Num(5)),
                 KV("p2", Str(<<"B">>)), KV("q2", Num(3))>>,
               <<KV("id", Num(2)), KV("p2", Str(<<"C">>)), KV("q2", Num(1))>> >>]

TableProducts ==
  [id |-> "products", name |-> "Products", columns |-> <<"sku", "name">>,
   rows |-> << <<KV("sku", Str(<<"A">>)), KV("name", Str(<<"W">>))>>,
               <<KV("sku", Str(<<"B">>)), KV("name", Str(<<"G">>))>>,
               <<KV("sku", Str(<<"B">>)), KV("name", Str(<<"H">>))>>,
               <<KV("sku", Str(<<"C">>)), KV("name", Str(<<"Z">>))>> >>]

TableCustomers ==
  [id |-> "customers", name |-> "Customers", columns |-> <<"id", "name", "sku">>,
   rows |-> << <<KV("id", Num(1)), KV("name", Str(<<"N">>)), KV("sku", Str(<<"A">>))>>,
               <<KV("id", Num(2)), KV("name", Str(<<"M">>)), KV("sku", Str(<<"B">>))>> >>]

TablesABC == <<TableA, TableB, TableC>>
TablesAB == <<TableA, TableB>>
TablesEmp == <<TableEmp, TableDept>>
TablesOrders == <<TableOrders, TableProducts>>

TablesShop == <<TableCustomers, TableOrders, TableProducts>>

TableSets == {TablesABC, TablesAB, TablesEmp, TablesOrders, TablesShop}

\* A RelationshipEdge with every optional field undefined
Rel(st, sc, tt, tc) ==
  [sourceTableId |-> st, sourceColumn |-> sc, targetTableId |-> tt, targetColumn |-> tc,
   type |-> None, includedColumns |-> None, maxDepth |-> None, propertyName |-> None]

\* The relationships a user may declare over each set of tables.
RelPool(tbls) ==
  CASE tbls = TablesABC ->
         << Rel("a", "b_id", "b", "id"),
            Rel("b", "id", "a", "b_id"),
            [Rel("a", "b_id", "b", "id") EXCEPT !.type = Some("one-to-one")],
            Rel("b", "id", "c", "b_id"),
            Rel("c", "a_id", "a", "id") >>
    [] tbls = TablesAB ->
         << Rel("a", "b_id", "b", "id"),
            Rel("a", "b_id", "zz", "id"),
            Rel("a", "nope", "b", "nada"),
            Rel("a", "", "b", "id"),
            [Rel("a", "b_id", "b", "id") EXCEPT !.includedColumns = Some(<<"val">>)] >>
    [] tbls = TablesEmp ->
         << Rel("emp", "id", "emp", "manager_id"),
            [Rel("emp", "id", "emp", "manager_id") EXCEPT !.maxDepth = Some(0)],
            [Rel("emp", "id", "emp", "manager_id") EXCEPT !.maxDepth = Some(1)],
            [Rel("emp", "id", "emp", "manager_id") EXCEPT !.maxDepth = Some(2)],
            [Rel("dept", "id", "emp", "dept_id") EXCEPT !.maxDepth = Some(1)] >>
    [] tbls = TablesOrders ->
         << Rel("orders", "p1", "products", "sku"),
            [Rel("orders", "p1", "products", "sku") EXCEPT !.type = Some("one-to-one")],
            Rel("products", "sku", "orders", "p2"),
            [Rel("orders", "p2", "products", "sku") EXCEPT
               !.includedColumns = Some(<<"name">>)] >>
    [] tbls = TablesShop ->
         << [Rel("customers", "id", "orders", "id") EXCEPT !.includedColumns = Some(<<"id">>)],
            [Rel("orders", "p2", "products", "sku") EXCEPT !.propertyName = Some("Second")],
            [Rel("orders", "p1", "products", "sku") EXCEPT
               !.includedColumns = Some(<<"name">>)] >>

NoOptions == [columnsFilter |-> <<>>, columnSplits |-> <<>>, tablePivots |-> <<>>]

PivotItems ==
  [tableId |-> "orders", arrayName |-> "Items",
   groups |-> << [pattern |-> "p", propertyName |-> "product"],
                 [pattern |-> "q", propertyName |-> "qty"] >>]

\* options: columnsFilter, columnSplits and tablePivots as the caller passes them
OptionSets(tbls) ==
  CASE tbls \in {TablesABC, TablesAB} ->
         { NoOptions,
           [NoOptions EXCEPT !.columnsFilter = [t \in {"a", "b"} |->
                                                  IF t = "a" THEN <<"id">> ELSE <<"val">>],
                             !.columnSplits = << [tableId |-> "b", column |-> "val",
                                                  delimiter |-> <<";">>] >>] }
    [] tbls = TablesEmp -> { NoOptions }
    [] tbls = TablesOrders ->
         { NoOptions,
           [NoOptions EXCEPT !.tablePivots = <<PivotItems>>],
           [NoOptions EXCEPT !.tablePivots = <<PivotItems>>,
                             !.columnsFilter = [t \in {"orders"} |-> <<"id", "p2", "q2">>]],
           [NoOptions EXCEPT !.columnsFilter = [t \in {"orders", "products"} |->
                                                  IF t = "orders" THEN <<"id", "p1">>
                                                  ELSE <<>>]] }
    [] tbls = TablesShop ->
         { NoOptions,
           [NoOptions EXCEPT !.tablePivots = <<PivotItems>>],
           [NoOptions EXCEPT !.columnSplits = << [tableId |-> "orders", column |-> "p1",
                                                  delimiter |-> <<";">>],
                                                 [tableId |-> "products", column |-> "name",
                                                  delimiter |-> <<";">>] >>,
                             !.tablePivots = <<[PivotItems EXCEPT !.tableId = "customers"]>>],
           [NoOptions EXCEPT !.columnsFilter = [t \in {"products"} |-> <<"sku">>]] }

\* Most relationships declared at once
MaxRels == 3

\* The arguments of one buildJoinedDocument call
Input == [tables |-> tables, relationships |-> relationships,
          columnsFilter |-> options.columnsFilter,
          columnSplits |-> options.columnSplits,
          tablePivots |-> options.tablePivots]

\* Table ids and row indices a caller may pass, valid or not
LeadIds == {tables[i].id : i \in 1..Len(tables)} \cup {"zz"}

LeadRows(id) ==
  IF HasTable(tables, id) THEN -1..Len(TableGet(tables, id).rows) ELSE {0}

NoCall == [leadTableId |-> "", leadRowIndex |-> -1]

NoResult == [status |-> "none", error |-> <<>>, doc |-> NoDoc, visited |-> {}, log |-> <<>>,
             hits |-> <<>>]

----------------------------------------------------------------------------
(* The state machine: relationships are declared, then documents are built *)

\* history holds the stacks and flags of one useHistory hook, with the last
\* operation on it, what it returned and the stacks it found
NoHistory ==
  [maxSize |-> 0, past |-> <<>>, future |-> <<>>, canUndo |-> FALSE, canRedo |-> FALSE,
   op |-> "none", returned |-> None, before |-> [past |-> <<>>, future |-> <<>>]]

\* pure holds the last call of a library function made outside a document
\* build (toRelationshipEdges, applySplits, applyPivots, applyTransforms)
NoPure == [op |-> "none", in |-> <<>>, out |-> <<>>, after |-> <<>>]

Init ==
  /\ pure = NoPure
  /\ history = NoHistory
  /\ tables \in TableSets
  /\ options \in OptionSets(tables)
  /\ relationships = <<>>
  /\ phase = "setup"
  /\ first = [call |-> NoCall, result |-> NoResult]
  /\ call = NoCall
  /\ result = NoResult
  /\ again = FALSE

\* A relationship is drawn on the canvas
AddRelationship(r) ==
  /\ phase = "setup"
  /\ Len(relationships) < MaxRels
  /\ ~InSeq(r, relationships)
  /\ relationships' = Append(relationships, r)
  /\ UNCHANGED <<tables, options, phase, first, call, result, again, pure, history>>

\* the tables after a call that built res from row leadRowIndex of table
\* leadTableId: projectRow spreads the row, so what is embedded lands on the
\* copy
TablesAfter(leadTableId, leadRowIndex, res) ==
  IF res.status = "returns"
    THEN [t \in 1..Len(tables) |->
            IF tables[t].id = leadTableId
              THEN [tables[t] EXCEPT !.rows[leadRowIndex + 1] =
                      RowAfter(tables[t].rows[leadRowIndex + 1], res.doc.a[1].v.a)]
              ELSE tables[t]]
    ELSE tables

\* The first document is built (handlePreview)
Preview(leadTableId, leadRowIndex) ==
  /\ phase = "setup"
  /\ phase' = "built"
  /\ call' = [leadTableId |-> leadTableId, leadRowIndex |-> leadRowIndex]
  /\ result' = buildJoinedDocument(leadTableId, leadRowIndex, Input)
  /\ first' = [call |-> call', result |-> result']
  /\ again' = FALSE
  /\ tables' = TablesAfter(leadTableId, leadRowIndex, result')
  /\ UNCHANGED <<relationships, options, pure, history>>

\* The preview is rendered again: the first call is repeated with the same
\* arguments; again records that
PreviewAgain ==
  /\ phase \in {"built", "export"}
  /\ phase' = "built"
  /\ call' = first.call
  /\ result' = buildJoinedDocument(first.call.leadTableId, first.call.leadRowIndex, Input)
  /\ again' = TRUE
  /\ tables' = TablesAfter(first.call.leadTableId, first.call.leadRowIndex, result')
  /\ UNCHANGED <<relationships, options, first, pure, history>>

\* the row the export loop builds next: row 0, then the row after the last
ExportIndex == IF phase = "export" THEN call.leadRowIndex + 1 ELSE 0

\* One pass of the export loop (handleDownload): the documents of the rows of
\* the lead table are built in row order
ExportNext ==
  /\ phase \in {"built", "export"}
  /\ HasTable(tables, first.call.leadTableId)
  /\ ExportIndex < Len(TableGet(tables, first.call.leadTableId).rows)
  /\ phase' = "export"
  /\ call' = [leadTableId |-> first.call.leadTableId, leadRowIndex |-> ExportIndex]
  /\ result' = buildJoinedDocument(first.call.leadTableId, ExportIndex, Input)
  /\ again' = FALSE
  /\ tables' = TablesAfter(first.call.leadTableId, ExportIndex, result')
  /\ UNCHANGED <<relationships, options, first, pure, history>>

Next ==
  \/ \E i \in 1..Len(RelPool(tables)) : AddRelationship(RelPool(tables)[i])
  \/ \E id \in LeadIds : \E idx \in LeadRows(id) : Preview(id, idx)
  \/ PreviewAgain
  \/ ExportNext

Spec == Init /\ [][Next]_vars

----------------------------------------------------------------------------
(* The library functions called on their own *)

\* A reactflow Edge: the handles are the join columns (null when the edge was
\* not drawn between column handles), data.type the cardinality
Edge(id, source, sourceHandle, target, targetHandle, dataType) ==
  [id |-> id, source |-> source, target |-> target,
   sourceHandle |-> sourceHandle, targetHandle |-> targetHandle, dataType |-> dataType]

EdgePool ==
  << Edge("e1", "a", Some("b_id"), "b", Some("id"), None),
     Edge("e2", "a", None, "b", Some("id"), None),
     Edge("e3", "b", Some("id"), "c", Some(""), None),
     Edge("e4", "b", Some("id"), "a", Some("b_id"), Some("one-to-one")),
     Edge("e5", "c", Some("a_id"), "a", None, Some("one-to-many")) >>

\* Most edges on the canvas
MaxEdges == 2

RECURSIVE SeqsUpTo(_, _)
SeqsUpTo(S, n) ==
  IF n = 0 THEN {<<>>}
  ELSE SeqsUpTo(S, n - 1) \cup {Append(sq, x) : sq \in SeqsUpTo(S, n - 1), x \in S}

NoOverrides ==
  [edgeTypes |-> None, edgeColumnFilters |-> None, edgeMaxDepth |-> None,
   edgePropertyNames |-> None]

\* the per-edge settings of the canvas
OverrideSets ==
  { NoOverrides,
    [edgeTypes |-> Some([id \in {"e1"} |-> "one-to-one"]),
     edgeColumnFilters |-> Some([id \in {"e1"} |-> <<"val">>]),
     edgeMaxDepth |-> Some([id \in {"e1", "e4"} |-> IF id = "e1" THEN 0 ELSE 2]),
     edgePropertyNames |-> Some([id \in {"e4"} |-> "Owners"])],
    [NoOverrides EXCEPT !.edgeTypes = Some([id \in {"e4", "e2"} |-> "one-to-many"])],
    [NoOverrides EXCEPT !.edgeColumnFilters = Some([id \in {"e3", "e4"} |-> <<"id">>]),
                        !.edgePropertyNames = Some([id \in {"e1", "e5"} |-> "Kids"])] }

PureInit ==
  /\ pure = NoPure
  /\ history = NoHistory
  /\ history = NoHistory
  /\ tables = TablesAB
  /\ options = NoOptions
  /\ relationships = <<>>
  /\ phase = "setup"
  /\ first = [call |-> NoCall, result |-> NoResult]
  /\ call = NoCall
  /\ result = NoResult
  /\ again = FALSE

\* toRelationshipEdges(edges, edgeTypes, edgeColumnFilters, edgeMaxDepth, edgePropertyNames)
CallToRelationshipEdges(edges, ov) ==
  /\ pure.op = "none"
  /\ pure' = [op |-> "edges",
              in |-> [edges |-> edges, ov |-> ov],
              out |-> toRelationshipEdges(edges, ov.edgeTypes, ov.edgeColumnFilters,
                                          ov.edgeMaxDepth, ov.edgePropertyNames),
              after |-> edges]
  /\ UNCHANGED <<tables, relationships, options, phase, first, call, result, again, history>>

\* Rows handed to the transforms, each with the column list of its table: a
\* dense and a sparse order, a row whose pivot suffixes are 2, 10, 1 and a
\* beside a column that is a bare prefix, and a row holding a number, null and
\* an array where strings are expected
PureCases ==
  << [columns |-> TableOrders.columns, row |-> TableOrders.rows[1]],
     [columns |-> TableOrders.columns, row |-> TableOrders.rows[2]],
     [columns |-> <<"id", "p2", "p10", "p1", "pa", "p", "tags", "val">>,
      row |-> <<KV("id", Num(3)), KV("p2", Str(<<"B">>)), KV("p10", Str(<<"T">>)),
                KV("p1", Str(<<"A", ";", " ", "C">>)), KV("pa", Str(<<"Z">>)),
                KV("p", Str(<<"P">>)),
                KV("tags", Str(<<" ", "a", ";", "b", " ", ";", "c">>)),
                KV("val", Num(42))>>],
     [columns |-> <<"id", "p2", "p10", "p1", "tags", "val">>,
      row |-> <<KV("id", Num(4)), KV("p10", Str(<<"T">>)), KV("p1", Num(7)),
                KV("tags", Null), KV("val", Arr(<<Str(<<"x">>)>>))>>] >>

Split(tableId, column, delimiter) ==
  [tableId |-> tableId, column |-> column, delimiter |-> delimiter]

SplitSets ==
  { <<>>,
    <<Split("orders", "tags", <<";">>)>>,
    <<Split("products", "tags", <<";">>)>>,
    <<Split("orders", "p1", <<";", " ">>)>>,
    <<Split("orders", "p1", <<";">>), Split("orders", "val", <<";">>),
      Split("orders", "name", <<";">>)>>,
    <<Split("orders", "tags", <<";">>), Split("orders", "tags", <<" ">>)>> }

\* the p columns alone, and the q columns alone
PivotPs ==
  [tableId |-> "orders", arrayName |-> "Ps",
   groups |-> <<[pattern |-> "p", propertyName |-> "P"]>>]

PivotQs ==
  [tableId |-> "orders", arrayName |-> "Qs",
   groups |-> <<[pattern |-> "q", propertyName |-> "Q"]>>]

PivotSets ==
  { <<>>,
    <<PivotItems>>,
    <<[PivotItems EXCEPT !.tableId = "products"]>>,
    <<PivotPs>>,
    <<PivotItems, PivotPs>>,
    <<PivotPs, PivotItems>>,
    <<PivotPs, PivotQs>> }

PureTableIds == {"orders", "products"}

\* applySplits(row, splits, tableId)
CallApplySplits(c, splits, tableId) ==
  /\ pure.op = "none"
  /\ pure' = [op |-> "splits",
              in |-> [row |-> c.row, splits |-> splits, tableId |-> tableId],
              out |-> applySplits(c.row, splits, tableId),
              after |-> RowAfter(c.row, applySplits(c.row, splits, tableId))]
  /\ UNCHANGED <<tables, relationships, options, phase, first, call, result, again, history>>

\* applyPivots(row, pivots, tableId, allColumns)
CallApplyPivots(c, pivots, tableId) ==
  /\ pure.op = "none"
  /\ pure' = [op |-> "pivots",
              in |-> [row |-> c.row, pivots |-> pivots, tableId |-> tableId,
                      allColumns |-> c.columns],
              out |-> applyPivots(c.row, pivots, tableId, c.columns),
              after |-> RowAfter(c.row, applyPivots(c.row, pivots, tableId, c.columns))]
  /\ UNCHANGED <<tables, relationships, options, phase, first, call, result, again, history>>

\* applyTransforms(row, tableId, allColumns, splits, pivots)
CallApplyTransforms(c, splits, pivots, tableId) ==
  /\ pure.op = "none"
  /\ pure' = [op |-> "transforms",
              in |-> [row |-> c.row, splits |-> splits, pivots |-> pivots,
                      tableId |-> tableId, allColumns |-> c.columns],
              out |-> applyTransforms(c.row, tableId, c.columns, splits, pivots),
              after |-> RowAfter(c.row, applySplits(c.row, splits, tableId))]
  /\ UNCHANGED <<tables, relationships, options, phase, first, call, result, again, history>>

\* removeTable with the edges of the removed table's outgoing side only
removeTable_SourceOnly(tableId, tbls, nodes, edges) ==
  [tables |-> SelectSeq(tbls, LAMBDA t : t.id # tableId),
   nodes |-> SelectSeq(nodes, LAMBDA n : n.id # tableId),
   edges |-> SelectSeq(edges, LAMBDA e : e.source # tableId),
   rootTableId |-> IF Len(SelectSeq(tbls, LAMBDA t : t.id # tableId)) > 0
                     THEN SelectSeq(tbls, LAMBDA t : t.id # tableId)[1].id ELSE "",
   leadTableId |-> IF Len(SelectSeq(tbls, LAMBDA t : t.id # tableId)) > 0
                     THEN SelectSeq(tbls, LAMBDA t : t.id # tableId)[1].id ELSE ""]

\* removeTable(tableId, tables, nodes, edges)
removeTable(tableId, tbls, nodes, edges) ==
  [tables |-> SelectSeq(tbls, LAMBDA t : t.id # tableId),
   nodes |-> SelectSeq(nodes, LAMBDA n : n.id # tableId),
   edges |-> SelectSeq(edges, LAMBDA e : e.source # tableId /\ e.target # tableId),
   rootTableId |-> IF Len(SelectSeq(tbls, LAMBDA t : t.id # tableId)) > 0
                     THEN SelectSeq(tbls, LAMBDA t : t.id # tableId)[1].id ELSE "",
   leadTableId |-> IF Len(SelectSeq(tbls, LAMBDA t : t.id # tableId)) > 0
                     THEN SelectSeq(tbls, LAMBDA t : t.id # tableId)[1].id ELSE ""]

\* a node of the canvas showing table t
TableNode(t) == [id |-> t.id, type |-> "tableNode", data |-> [table |-> t.id]]

\* the tables loaded and the nodes on the canvas when a table is removed
CanvasTables ==
  { <<>>, <<TableA>>, TablesAB, <<TableB, TableA>>, TablesABC, <<TableC, TableA, TableB>> }

CanvasNodes ==
  { <<>>, <<TableNode(TableC)>>, <<TableNode(TableA), TableNode(TableB)>>,
    <<TableNode(TableB), TableNode(TableA), TableNode(TableC)>> }

RemovedIds == {"a", "b", "c", "zz"}

CallRemoveTable(tableId, tbls, nodes, edges) ==
  /\ pure.op = "none"
  /\ pure' = [op |-> "remove",
              in |-> [tableId |-> tableId, tables |-> tbls, nodes |-> nodes, edges |-> edges],
              out |-> removeTable(tableId, tbls, nodes, edges),
              after |-> [tables |-> tbls, nodes |-> nodes, edges |-> edges]]
  /\ UNCHANGED <<tables, relationships, options, phase, first, call, result, again, history>>

PureNext ==
  \/ \E edges \in SeqsUpTo({EdgePool[i] : i \in 1..Len(EdgePool)}, MaxEdges),
        ov \in OverrideSets : CallToRelationshipEdges(edges, ov)
  \/ \E c \in SetOf(PureCases), splits \in SplitSets, tableId \in PureTableIds :
       CallApplySplits(c, splits, tableId)
  \/ \E c \in SetOf(PureCases), pivots \in PivotSets, tableId \in PureTableIds :
       CallApplyPivots(c, pivots, tableId)
  \/ \E c \in SetOf(PureCases), splits \in SplitSets, pivots \in PivotSets,
        tableId \in PureTableIds : CallApplyTransforms(c, splits, pivots, tableId)
  \/ \E tableId \in RemovedIds, tbls \in CanvasTables, nodes \in CanvasNodes,
        edges \in SeqsUpTo({EdgePool[i] : i \in 1..Len(EdgePool)}, MaxEdges) :
       CallRemoveTable(tableId, tbls, nodes, edges)

PureSpec == PureInit /\ [][PureNext]_vars

----------------------------------------------------------------------------
(* The undo/redo history of the canvas (useHistory) *)

\* Largest maxSize a hook is created with
MaxMaxSize == 3

\* Most snapshots the past stack is let grow to
MaxPast == 5

Snapshots == {"s1", "s2"}

\* arr.slice(start): a negative start counts from the end, and -0 is 0
SliceFrom(arr, start) ==
  IF start < 0
    THEN SubSeq(arr, (IF Len(arr) + start > 0 THEN Len(arr) + start ELSE 0) + 1, Len(arr))
    ELSE SubSeq(arr, (IF start < Len(arr) THEN start ELSE Len(arr)) + 1, Len(arr))

\* pastRef.current.slice(-(maxSize - 1))
Trimmed(past, maxSize) == SliceFrom(past, 0 - (maxSize - 1))

\* setCanUndo(pastRef.current.length > 1); setCanRedo(futureRef.current.length > 0)
updateFlags(h) == [h EXCEPT !.canUndo = Len(h.past) > 1, !.canRedo = Len(h.future) > 0]

Found(h) == [past |-> h.past, future |-> h.future]

HistoryInit ==
  /\ history \in {[NoHistory EXCEPT !.maxSize = m] : m \in 1..MaxMaxSize}
  /\ pure = NoPure
  /\ tables = TablesAB
  /\ options = NoOptions
  /\ relationships = <<>>
  /\ phase = "setup"
  /\ first = [call |-> NoCall, result |-> NoResult]
  /\ call = NoCall
  /\ result = NoResult
  /\ again = FALSE

push(snapshot) ==
  /\ Len(history.past) < MaxPast
  /\ history' = updateFlags([history EXCEPT
                               !.past = Append(Trimmed(history.past, history.maxSize), snapshot),
                               !.future = <<>>,
                               !.op = "push", !.returned = None,
                               !.before = Found(history)])
  /\ UNCHANGED <<tables, relationships, options, phase, first, call, result, again, pure>>

undo ==
  /\ history' =
       IF Len(history.past) <= 1
         THEN [history EXCEPT !.op = "undo", !.returned = None, !.before = Found(history)]
         ELSE updateFlags([history EXCEPT
                             !.past = SubSeq(history.past, 1, Len(history.past) - 1),
                             !.future = <<history.past[Len(history.past)]>> \o history.future,
                             !.op = "undo",
                             !.returned = Some(history.past[Len(history.past) - 1]),
                             !.before = Found(history)])
  /\ UNCHANGED <<tables, relationships, options, phase, first, call, result, again, pure>>

redo ==
  /\ history' =
       IF Len(history.future) = 0
         THEN [history EXCEPT !.op = "redo", !.returned = None, !.before = Found(history)]
         ELSE updateFlags([history EXCEPT
                             !.past = Append(history.past, history.future[1]),
                             !.future = Tail(history.future),
                             !.op = "redo",
                             !.returned = Some(history.future[1]),
                             !.before = Found(history)])
  /\ UNCHANGED <<tables, relationships, options, phase, first, call, result, again, pure>>

HistoryNext ==
  \/ \E snapshot \in Snapshots : push(snapshot)
  \/ undo
  \/ redo

HistorySpec == HistoryInit /\ [][HistoryNext]_vars

----------------------------------------------------------------------------
(* Properties *)

\* a call has been made
Built == phase \in {"built", "export"}

Returned == Built /\ result.status = "returns"

LeadValid ==
  /\ HasTable(tables, call.leadTableId)
  /\ call.leadRowIndex \in 0..(Len(TableGet(tables, call.leadTableId).rows) - 1)

LeadTable == TableGet(tables, call.leadTableId)

LeadRow == LeadTable.rows[call.leadRowIndex + 1]

\* the entries of the lead row's object in the returned document
LeadObj == result.doc.a[1].v.a

RemoveAt(sq, i) == SubSeq(sq, 1, i - 1) \o SubSeq(sq, i + 1, Len(sq))

\* the call's outcome had relationship i not been declared
OutcomeWithout(i) ==
  buildJoinedDocument(call.leadTableId, call.leadRowIndex,
                      [Input EXCEPT !.relationships = RemoveAt(relationships, i)])

SameOutcome(o1, o2) == o1.status = o2.status /\ o1.error = o2.error /\ o1.doc = o2.doc

C8_ThrowsIffLeadInvalid ==
  Built =>
    /\ result.status = "throws" <=> ~LeadValid
    /\ result.status = "returns" <=> LeadValid
    /\ ~HasTable(tables, call.leadTableId) =>
         result.error = <<"Lead table not found: ", call.leadTableId>>
    /\ HasTable(tables, call.leadTableId) /\ ~LeadValid =>
         result.error = <<"Lead row not found index=", ToString(call.leadRowIndex)>>

C8_Witness ==
  /\ Built
  /\ result.status = "throws"
  /\ HasTable(tables, call.leadTableId)
  /\ call.leadRowIndex = Len(LeadTable.rows)
  /\ Len(relationships) >= 1

\* an endpoint of the relationship is no table of the input
Dangling(rel) ==
  ~HasTable(tables, rel.sourceTableId) \/ ~HasTable(tables, rel.targetTableId)

\* C9: a relationship with an endpoint that is no table is skipped: the outcome
\* is the outcome of the same call without that relationship, and a valid lead
\* still returns a document.
C9_MissingTableSkipped ==
  Built =>
    \A i \in 1..Len(relationships) :
      Dangling(relationships[i]) =>
        /\ SameOutcome(result, OutcomeWithout(i))
        /\ LeadValid => result.status = "returns"

C9_Witness ==
  /\ Returned
  /\ \E i \in 1..Len(relationships) :
       /\ Dangling(relationships[i])
       /\ Touches(relationships[i], call.leadTableId)
       /\ i < Len(relationships)
  /\ Has(LeadObj, "B")

\* no row of the table carries the column (or the column name is empty)
ColumnMissing(tableId, col) ==
  \/ col = ""
  \/ /\ HasTable(tables, tableId)
     /\ \A j \in 1..Len(TableGet(tables, tableId).rows) :
          ~Has(TableGet(tables, tableId).rows[j], col)

MissingJoinColumn(rel) ==
  \/ ColumnMissing(rel.sourceTableId, rel.sourceColumn)
  \/ ColumnMissing(rel.targetTableId, rel.targetColumn)

\* C10: a relationship with a missing join column is ignored: the outcome is
\* the outcome of the same call without that relationship.
C10_MissingColumnIgnored ==
  Built =>
    \A i \in 1..Len(relationships) :
      MissingJoinColumn(relationships[i]) => SameOutcome(result, OutcomeWithout(i))

----------------------------------------------------------------------------
(* The relationships traversed from the lead row *)

TableNames == {tables[i].name : i \in 1..Len(tables)}

\* a built node without the properties relationships embedded into it (also
\* inside the elements of its pivot arrays)
RECURSIVE Strip(_)
Strip(v) ==
  CASE v.t = "arr" -> Arr([i \in 1..Len(v.a) |-> Strip(v.a[i])])
    [] v.t = "obj" ->
         LET kept == SelectSeq(v.a, LAMBDA e : e.k \notin TableNames)
         IN Obj([i \in 1..Len(kept) |-> KV(kept[i].k, Strip(kept[i].v))])
    [] OTHER -> v

LeadChild(i) == ChildTableId(relationships[i], call.leadTableId)

\* relationship i leads from the lead table to another table of the input
FromLead(i) ==
  /\ Touches(relationships[i], call.leadTableId)
  /\ LeadChild(i) # call.leadTableId
  /\ HasTable(tables, LeadChild(i))

\* relationship i joins on a column the lead table's pivot has folded
OnPivot(i) ==
  HasPivotInfo(Input, call.leadTableId, LocalCol(relationships[i], call.leadTableId))

LeadProp(i) == PropName(relationships[i], TableGet(tables, LeadChild(i)))

\* relationship j assigns the same property on the same path as relationship i
SameTarget(i, j) ==
  /\ FromLead(j)
  /\ LeadProp(j) = LeadProp(i)
  /\ OnPivot(j) = OnPivot(i)

SoleWriter(i) == \A j \in 1..Len(relationships) : j # i => ~SameTarget(i, j)

LastWriter(i) == \A j \in (i + 1)..Len(relationships) : ~SameTarget(i, j)

\* the positions, ascending, of the child rows of relationship i whose remote
\* column equals v (row values are primitives or absent: = is ===)
JoinRows(i, v) ==
  LET rows == TableGet(tables, LeadChild(i)).rows
  IN SelectSeq([j \in 1..Len(rows) |-> j],
               LAMBDA j : Get(rows[j], RemoteCol(relationships[i], call.leadTableId)) = v)

\* child row j of relationship i as it is embedded, before anything is nested
ExpectedNode(i, j) ==
  Obj(filterNestedCols(Input, relationships[i], LeadChild(i),
        projectRow(Input, LeadChild(i), TableGet(tables, LeadChild(i)).rows[j])))

ExpectedNodes(i, rows) == [k \in 1..Len(rows) |-> ExpectedNode(i, rows[k])]

\* the relationship's cardinality as declared (one-to-many when undeclared)
OneToOne(i) == relationships[i].type = Some("one-to-one")

LocalValue(i) == Get(LeadRow, LocalCol(relationships[i], call.leadTableId))

\* C2: a one-to-many relationship from the lead row to another table, joined on
\* a column no pivot folds and alone in writing its property, embeds under the
\* child table's name exactly the child rows whose remote column equals the
\* row's local column, in child row order; with no such row the property is
\* absent.
C2_StandardJoin ==
  Returned =>
    \A i \in 1..Len(relationships) :
      (/\ FromLead(i)
       /\ ~OnPivot(i)
       /\ ~OneToOne(i)
       /\ SoleWriter(i)) =>
        IF Len(JoinRows(i, LocalValue(i))) = 0
          THEN ~Has(LeadObj, LeadProp(i))
          ELSE /\ Get(LeadObj, LeadProp(i)).t = "arr"
               /\ Len(Get(LeadObj, LeadProp(i)).a) \in 1..Len(JoinRows(i, LocalValue(i)))
               /\ uniqBy(Strip(Get(LeadObj, LeadProp(i))).a)
                    = uniqBy(ExpectedNodes(i, JoinRows(i, LocalValue(i))))

C2_Witness ==
  /\ Returned
  /\ \E i \in 1..Len(relationships) :
       /\ FromLead(i) /\ ~OnPivot(i) /\ SoleWriter(i)
       /\ ~OneToOne(i)
       /\ Len(JoinRows(i, LocalValue(i))) = 2
       /\ Len(JoinRows(i, LocalValue(i))) < Len(TableGet(tables, LeadChild(i)).rows)
       /\ Len(Get(LeadObj, LeadProp(i)).a) = 2
       /\ Len(relationships) >= 2

\* element e of the lead row's pivot array is joined by relationship i: the
\* sibling column at the element's position is in the row and has matches
PivotJoined(i, info, sorted, e) ==
  /\ e <= Len(sorted)
  /\ MapHas(info.siblingCols, sorted[e])
  /\ Has(LeadRow, MapGet(info.siblingCols, sorted[e]))
  /\ Len(JoinRows(i, Get(LeadRow, MapGet(info.siblingCols, sorted[e])))) > 0

PivotValue(info, sorted, e) == Get(LeadRow, MapGet(info.siblingCols, sorted[e]))

LeadPivotInfo(i) ==
  findPivotInfo(Input, call.leadTableId, LocalCol(relationships[i], call.leadTableId))

LeadSorted(i) == SortedIndices(LeadPivotInfo(i).pivot.groups, LeadTable.columns)

LeadPivotArray(i) == Get(LeadObj, LeadPivotInfo(i).pivot.arrayName)

\* C3: a one-to-one relationship with at least one match embeds a single
\* object, the first match in child row order, never an array: under the
\* property of the lead row (standard path) and under the property of each
\* joined element of the pivot array (pivot path).
C3_OneToOneSingleObject ==
  Returned =>
    \A i \in 1..Len(relationships) :
      (/\ FromLead(i)
       /\ OneToOne(i)
       /\ LastWriter(i)) =>
        IF OnPivot(i)
          THEN IsArray(LeadPivotArray(i)) =>
                 \A e \in 1..Len(LeadPivotArray(i).a) :
                   PivotJoined(i, LeadPivotInfo(i), LeadSorted(i), e) =>
                     /\ Get(LeadPivotArray(i).a[e].a, LeadProp(i)).t = "obj"
                     /\ Strip(Get(LeadPivotArray(i).a[e].a, LeadProp(i)))
                          = ExpectedNode(i, JoinRows(i, PivotValue(LeadPivotInfo(i), LeadSorted(i), e))[1])
          ELSE Len(JoinRows(i, LocalValue(i))) > 0 =>
                 /\ Get(LeadObj, LeadProp(i)).t = "obj"
                 /\ Strip(Get(LeadObj, LeadProp(i))) = ExpectedNode(i, JoinRows(i, LocalValue(i))[1])

C3_Witness ==
  /\ Returned
  /\ \E i \in 1..Len(relationships) :
       /\ FromLead(i) /\ OnPivot(i) /\ LastWriter(i)
       /\ OneToOne(i)
       /\ IsArray(LeadPivotArray(i))
       /\ \E e \in 1..Len(LeadPivotArray(i).a) :
            /\ PivotJoined(i, LeadPivotInfo(i), LeadSorted(i), e)
            /\ Len(JoinRows(i, PivotValue(LeadPivotInfo(i), LeadSorted(i), e))) = 2
            /\ Get(LeadPivotArray(i).a[e].a, LeadProp(i)).t = "obj"

\* relationships i and j join the same column pair in opposite directions
Reverse(i, j) ==
  /\ relationships[i].sourceTableId = relationships[j].targetTableId
  /\ relationships[i].sourceColumn = relationships[j].targetColumn
  /\ relationships[i].targetTableId = relationships[j].sourceTableId
  /\ relationships[i].targetColumn = relationships[j].sourceColumn

\* C4: with A->B and B->A declared on the same column pair (and nothing else
\* writing the property), the array embedded in the lead A row has exactly one
\* entry per distinct matching B row, whatever else is related to B.
C4_NoDuplicateAcrossReverseEdges ==
  Returned =>
    \A i, j \in 1..Len(relationships) :
      (/\ i # j
       /\ Reverse(i, j)
       /\ FromLead(i) /\ ~OnPivot(i)
       /\ ~OneToOne(i) /\ ~OneToOne(j)
       /\ \A k \in 1..Len(relationships) : SameTarget(i, k) => k \in {i, j}
       /\ Len(JoinRows(i, LocalValue(i))) > 0) =>
        /\ Get(LeadObj, LeadProp(i)).t = "arr"
        /\ Len(Get(LeadObj, LeadProp(i)).a)
             = Len(uniqBy(ExpectedNodes(i, JoinRows(i, LocalValue(i)))))

Name(tableId) == TableGet(tables, tableId).name

TableOfName(nm) == CHOOSE id \in {tables[i].id : i \in 1..Len(tables)} : Name(id) = nm

\* every relationship declared between tables t and p has maxDepth undefined or 0
BlockedByDefault(t, p) ==
  \A i \in 1..Len(relationships) :
    ({relationships[i].sourceTableId, relationships[i].targetTableId} = {t, p}) =>
      relationships[i].maxDepth \in {None, Some(0)}

\* the nodes a property holds: the elements of an array, or the one object
Elems(v) == IF v.t = "arr" THEN v.a ELSE <<v>>

\* the relationships of table t that embed under the property key
WritersOf(t, key) ==
  {i \in 1..Len(relationships) :
     /\ Touches(relationships[i], t)
     /\ HasTable(tables, ChildTableId(relationships[i], t))
     /\ PropName(relationships[i], TableGet(tables, ChildTableId(relationships[i], t))) = key}

\* the property key of a row of table t holds embedded rows (and not a pivot
\* array or a column)
IsEmbedding(t, key) == WritersOf(t, key) # {}

\* the table whose rows the property key of a row of table t holds
EmbeddedTable(t, key) ==
  ChildTableId(relationships[CHOOSE i \in WritersOf(t, key) : TRUE], t)

\* the entries obj of a row of table t, built below a row of table p, carry no
\* property of t or p that only relationships blocked by default could embed;
\* so do the nodes embedded in it and in the elements of its arrays
RECURSIVE NoBlockedEmbedding(_, _, _)
NoBlockedEmbedding(obj, t, p) ==
  /\ BlockedByDefault(t, t) => ~Has(obj, Name(t))
  /\ (IsSome(p) /\ BlockedByDefault(t, The(p))) => ~Has(obj, Name(The(p)))
  /\ \A e \in 1..Len(obj) :
       \A c \in 1..Len(Elems(obj[e].v)) :
         Elems(obj[e].v)[c].t = "obj" =>
           IF IsEmbedding(t, obj[e].k)
             THEN NoBlockedEmbedding(Elems(obj[e].v)[c].a, EmbeddedTable(t, obj[e].k), Some(t))
             ELSE NoBlockedEmbedding(Elems(obj[e].v)[c].a, t, p)

SelfRel(i) ==
  /\ relationships[i].sourceTableId = call.leadTableId
  /\ relationships[i].targetTableId = call.leadTableId

SelfRows(i, r) ==
  SelectSeq([j \in 1..Len(LeadTable.rows) |-> j],
            LAMBDA j : Get(LeadTable.rows[j], RemoteCol(relationships[i], call.leadTableId))
                         = Get(LeadTable.rows[r], LocalCol(relationships[i], call.leadTableId)))

Max(a, b) == IF a >= b THEN a ELSE b

RECURSIVE MaxOver(_, _, _)
MaxOver(sq, i, acc) == IF i > Len(sq) THEN acc ELSE MaxOver(sq, i + 1, Max(acc, sq[i]))

\* the length, up to n, of the longest chain of matching rows below row r
RECURSIVE ChainLen(_, _, _)
ChainLen(i, r, n) ==
  IF n = 0 \/ Len(SelfRows(i, r)) = 0 THEN 0
  ELSE 1 + MaxOver([k \in 1..Len(SelfRows(i, r)) |-> ChainLen(i, SelfRows(i, r)[k], n - 1)], 1, 0)

\* the number of levels the property nm is nested below the entries obj
RECURSIVE NestDepth(_, _)
NestDepth(obj, nm) ==
  IF ~Has(obj, nm) THEN 0
  ELSE 1 + MaxOver([c \in 1..Len(Elems(Get(obj, nm))) |->
                      IF Elems(Get(obj, nm))[c].t = "obj"
                        THEN NestDepth(Elems(Get(obj, nm))[c].a, nm) ELSE 0], 1, 0)

\* relationship i is the lead table's one self-relationship that is not blocked
\* by default
OnlySelfRel(i) ==
  /\ SelfRel(i)
  /\ IsSome(relationships[i].maxDepth) /\ The(relationships[i].maxDepth) > 0
  /\ \A j \in 1..Len(relationships) :
       (j # i /\ SelfRel(j)) => relationships[j].maxDepth \in {None, Some(0)}

\* C6: under a self-relationship with maxDepth n > 0 the self property is
\* nested below the lead row as many levels as the longest chain of matching
\* rows has, and n levels when the chain is longer.
C6_SelfJoinDepth ==
  Returned =>
    \A i \in 1..Len(relationships) :
      OnlySelfRel(i) =>
        NestDepth(LeadObj, Name(call.leadTableId))
          = ChainLen(i, call.leadRowIndex + 1, The(relationships[i].maxDepth))

\* the largest maxDepth declared (0 when none is)
MaxMaxDepth ==
  MaxOver([i \in 1..Len(relationships) |->
             IF IsSome(relationships[i].maxDepth) THEN The(relationships[i].maxDepth) ELSE 0],
          1, 0)

\* C7: a call with a valid lead runs to its end (the stack never overflows):
\* it expands no (table, row, depth) twice and no depth exceeds the largest
\* maxDepth declared, so the expansions are bounded by the input.
C7_Terminates ==
  Built =>
    /\ result.error # <<"RangeError", "Maximum call stack size exceeded">>
    /\ \A m, n \in 1..Len(result.log) : result.log[m] = result.log[n] => m = n
    /\ \A m \in 1..Len(result.log) : result.log[m][3] \in 0..MaxMaxDepth
    /\ Len(result.log) <= MaxStack * MaxStack

\* a build that went round the cycle a -> b -> c -> a and reached a second row
\* of the lead table
C7_Witness ==
  /\ Returned
  /\ InSeq(Rel("a", "b_id", "b", "id"), relationships)
  /\ InSeq(Rel("b", "id", "c", "b_id"), relationships)
  /\ InSeq(Rel("c", "a_id", "a", "id"), relationships)
  /\ call.leadTableId = "a"
  /\ \E m \in 1..Len(result.log) :
       result.log[m][1] = "a" /\ result.log[m][2] # call.leadRowIndex

----------------------------------------------------------------------------
(* Properties of the library functions *)

\* the positions of the edges with two non-empty handles, ascending
KeptEdges(edges) ==
  SelectSeq([i \in 1..Len(edges) |-> i],
            LAMBDA i : /\ edges[i].sourceHandle \notin {None, Some("")}
                       /\ edges[i].targetHandle \notin {None, Some("")})

\* m[id] when the map m is given and has the key id, else otherwise
Override(m, id, otherwise) ==
  IF m # None /\ id \in DOMAIN m[1] THEN <<m[1][id]>> ELSE otherwise

\* C11: toRelationshipEdges returns one relationship per edge with two
\* non-empty handles, in input order, and nothing for the other edges; each
\* carries the edge's tables and handles, the type of edgeTypes for its id (else
\* the edge's data.type) and the includedColumns, maxDepth and propertyName of
\* the maps for its id.
C11_ToRelationshipEdges ==
  pure.op = "edges" =>
    /\ Len(pure.out) = Len(KeptEdges(pure.in.edges))
    /\ \A k \in 1..Len(pure.out) :
         /\ k <= Len(KeptEdges(pure.in.edges))
         /\ pure.out[k] =
              [sourceTableId |-> pure.in.edges[KeptEdges(pure.in.edges)[k]].source,
               targetTableId |-> pure.in.edges[KeptEdges(pure.in.edges)[k]].target,
               sourceColumn |-> pure.in.edges[KeptEdges(pure.in.edges)[k]].sourceHandle[1],
               targetColumn |-> pure.in.edges[KeptEdges(pure.in.edges)[k]].targetHandle[1],
               type |-> Override(pure.in.ov.edgeTypes,
                                 pure.in.edges[KeptEdges(pure.in.edges)[k]].id,
                                 pure.in.edges[KeptEdges(pure.in.edges)[k]].dataType),
               includedColumns |-> Override(pure.in.ov.edgeColumnFilters,
                                            pure.in.edges[KeptEdges(pure.in.edges)[k]].id, None),
               maxDepth |-> Override(pure.in.ov.edgeMaxDepth,
                                     pure.in.edges[KeptEdges(pure.in.edges)[k]].id, None),
               propertyName |-> Override(pure.in.ov.edgePropertyNames,
                                         pure.in.edges[KeptEdges(pure.in.edges)[k]].id, None)]

\* a dropped edge in front of a kept edge whose type and maxDepth come from the
\* maps
C11_Witness ==
  /\ pure.op = "edges"
  /\ Len(pure.in.edges) = 2
  /\ KeptEdges(pure.in.edges) = <<2>>
  /\ Len(pure.out) = 1
  /\ pure.out[1].type = Some("one-to-one")
  /\ pure.out[1].maxDepth = Some(0)
  /\ pure.in.edges[2].dataType = None

----------------------------------------------------------------------------
(* Projection and per-edge column filters *)

\* the columnsFilter list of table t (empty when none is declared)
Listed(t) == IF t \in DOMAIN options.columnsFilter THEN options.columnsFilter[t] ELSE <<>>

\* the columns of table t a pivot of t folds into its array
Folded(t) ==
  {c \in {TableGet(tables, t).columns[i] : i \in 1..Len(TableGet(tables, t).columns)} :
     \E p \in 1..Len(options.tablePivots) :
       /\ options.tablePivots[p].tableId = t
       /\ \E g \in 1..Len(options.tablePivots[p].groups) :
            /\ IsPrefix(Chars(options.tablePivots[p].groups[g].pattern), Chars(c))
            /\ Len(Chars(c)) > Len(Chars(options.tablePivots[p].groups[g].pattern))}

ColumnsOf(t) == {TableGet(tables, t).columns[i] : i \in 1..Len(TableGet(tables, t).columns)}

\* obj is row of table t projected: with a list, its columns are listed columns
\* the row has, every such column is there unless a pivot or an edge's filter
\* took it, and none is null for being absent; without a list every column of
\* the row is there (same exceptions).  Values are the row's, split.
Projected(t, row, obj, edgeFiltered) ==
  IF Len(Listed(t)) > 0
    THEN \A c \in ColumnsOf(t) \cup {Listed(t)[i] : i \in 1..Len(Listed(t))} :
           /\ Has(obj, c) =>
                /\ InSeq(c, Listed(t))
                /\ Has(row, c)
                /\ Get(obj, c) = Get(applySplits(row, options.columnSplits, t), c)
           /\ (InSeq(c, Listed(t)) /\ Has(row, c) /\ c \notin Folded(t) /\ ~edgeFiltered)
                => Has(obj, c)
    ELSE \A i \in 1..Len(row) :
           (row[i].k \notin Folded(t) /\ ~edgeFiltered) =>
             /\ Has(obj, row[i].k)
             /\ Get(obj, row[i].k) = Get(applySplits(row, options.columnSplits, t), row[i].k)

\* some relationship writing the property of relationship i filters columns
EdgeFiltered(i) ==
  \E j \in 1..Len(relationships) :
    /\ FromLead(j)
    /\ LeadProp(j) = LeadProp(i)
    /\ relationships[j].includedColumns # None
    /\ Len(relationships[j].includedColumns[1]) > 0

\* C12: the lead row and every child row embedded in it are projected by their
\* table's columnsFilter: with a non-empty list only listed columns the row has
\* are emitted (an absent one is omitted, not null), with no list or an empty
\* list every column of the row is kept.
C12_ColumnProjection ==
  Returned =>
    /\ Projected(call.leadTableId, LeadRow, LeadObj, FALSE)
    /\ \A i \in 1..Len(relationships) :
         (FromLead(i) /\ ~OnPivot(i) /\ Has(LeadObj, LeadProp(i))) =>
           \A e \in 1..Len(Elems(Get(LeadObj, LeadProp(i)))) :
             \E j \in 1..Len(TableGet(tables, LeadChild(i)).rows) :
               Projected(LeadChild(i), TableGet(tables, LeadChild(i)).rows[j],
                         Elems(Get(LeadObj, LeadProp(i)))[e].a, EdgeFiltered(i))

\* a lead row that lacks a listed column, with children of a table whose list
\* is empty
C12_Witness ==
  /\ Returned
  /\ Len(Listed(call.leadTableId)) > 0
  /\ \E c \in 1..Len(Listed(call.leadTableId)) : ~Has(LeadRow, Listed(call.leadTableId)[c])
  /\ Len(LeadObj) = 1
  /\ \E t \in DOMAIN options.columnsFilter : Len(options.columnsFilter[t]) = 0

\* children of a table with a list, embedded in a lead row with a list
C12_WitnessChild ==
  /\ Returned
  /\ \E i \in 1..Len(relationships) :
       /\ FromLead(i) /\ ~OnPivot(i) /\ Has(LeadObj, LeadProp(i))
       /\ Len(Listed(LeadChild(i))) > 0
       /\ Len(Listed(call.leadTableId)) > 0

\* what is embedded in the object obj under the property prop
Embedded(obj, prop) == IF Has(obj, prop) THEN SetOf(Elems(Get(obj, prop))) ELSE {}

\* the children relationship i has embedded: under its property in the lead row
\* or, when it joins on a folded column, in the elements of the pivot array
EmbeddedBy(i) ==
  IF OnPivot(i)
    THEN IF LeadPivotArray(i).t = "arr"
           THEN UNION {Embedded(LeadPivotArray(i).a[e].a, LeadProp(i)) :
                         e \in 1..Len(LeadPivotArray(i).a)}
           ELSE {}
    ELSE Embedded(LeadObj, LeadProp(i))

\* relationship i declares a non-empty includedColumns list
Filtering(i) ==
  /\ relationships[i].includedColumns # None
  /\ Len(relationships[i].includedColumns[1]) > 0

Included(i) == SetOf(relationships[i].includedColumns[1])

\* the display names of the tables some relationship relates to table t
RelatedNames(t) ==
  {Name(u) : u \in {u \in {tables[k].id : k \in 1..Len(tables)} :
                      \E j \in 1..Len(relationships) :
                        \/ relationships[j].sourceTableId = t /\ relationships[j].targetTableId = u
                        \/ relationships[j].targetTableId = t /\ relationships[j].sourceTableId = u}}

\* C13: every key of a child embedded through a relationship with a non-empty
\* includedColumns list is in the list or is the display name of a table
\* related to the child table; a split column that is not listed is absent.
C13_IncludedColumnsOnly ==
  Returned =>
    \A i \in 1..Len(relationships) :
      (FromLead(i) /\ SoleWriter(i) /\ Filtering(i)) =>
        \A c \in EmbeddedBy(i) :
          /\ c.t = "obj"
          /\ \A k \in 1..Len(c.a) :
               c.a[k].k \in Included(i) \cup RelatedNames(LeadChild(i))

\* a child whose table splits a column the relationship does not list
C13_Witness ==
  /\ Returned
  /\ \E i \in 1..Len(relationships) :
       /\ FromLead(i) /\ SoleWriter(i) /\ Filtering(i)
       /\ EmbeddedBy(i) # {}
       /\ \E sp \in 1..Len(options.columnSplits) :
            /\ options.columnSplits[sp].tableId = LeadChild(i)
            /\ options.columnSplits[sp].column \notin Included(i)
            /\ \E r \in 1..Len(TableGet(tables, LeadChild(i)).rows) :
                 /\ Get(TableGet(tables, LeadChild(i)).rows[r],
                        options.columnSplits[sp].column).t = "s"
                 /\ Get(TableGet(tables, LeadChild(i)).rows[r],
                        RemoteCol(relationships[i], call.leadTableId)) = LocalValue(i)

\* a filtered child that keeps a property named after a related table
C13_WitnessNested ==
  /\ Returned
  /\ \E i \in 1..Len(relationships) :
       /\ FromLead(i) /\ SoleWriter(i) /\ Filtering(i)
       /\ \E c \in EmbeddedBy(i) : \E k \in 1..Len(c.a) :
            c.a[k].k \in RelatedNames(LeadChild(i)) \ Included(i)

\* filtered children inside the elements of a pivot array
C13_WitnessPivot ==
  /\ Returned
  /\ \E i \in 1..Len(relationships) :
       /\ FromLead(i) /\ SoleWriter(i) /\ Filtering(i) /\ OnPivot(i)
       /\ EmbeddedBy(i) # {}

\* the lead row's object had relationship i declared no includedColumns
UnfilteredLeadObj(i) ==
  buildJoinedDocument(call.leadTableId, call.leadRowIndex,
    [Input EXCEPT !.relationships[i].includedColumns = None]).doc.a[1].v.a

\* the pivot arrays of table t whose elements carry something embedded (a
\* property no group of the pivot produces)
JoinedPivotArrays(t, u) ==
  {options.tablePivots[p].arrayName : p \in
     {p \in 1..Len(options.tablePivots) :
        /\ options.tablePivots[p].tableId = t
        /\ Has(u, options.tablePivots[p].arrayName)
        /\ \E el \in SetOf(Elems(Get(u, options.tablePivots[p].arrayName))) :
             el.t = "obj" /\ \E k \in 1..Len(el.a) :
               el.a[k].k \notin {options.tablePivots[p].groups[g].propertyName :
                                   g \in 1..Len(options.tablePivots[p].groups)}}}

\* the keys of the built row u of table t that hold what its relationships
\* embedded: the properties that are no column and no pivot array of t, and the
\* pivot arrays with embedded children
Attached(t, u) ==
  {u[k].k : k \in {k \in 1..Len(u) :
     /\ u[k].k \notin ColumnsOf(t)
     /\ u[k].k \notin {options.tablePivots[p].arrayName : p \in
                         {p \in 1..Len(options.tablePivots) :
                            options.tablePivots[p].tableId = t}}}}
    \cup JoinedPivotArrays(t, u)

\* C14: whatever the relationships of the child table attached to a child (under
\* a table name, under an output property name, or inside the child's pivot
\* array) is still in the child embedded through a relationship with
\* includedColumns, listed or not.
C14_NestedResultsKept ==
  Returned =>
    \A i \in 1..Len(relationships) :
      (FromLead(i) /\ SoleWriter(i) /\ Filtering(i) /\ ~OnPivot(i)) =>
        \A u \in Embedded(UnfilteredLeadObj(i), LeadProp(i)) :
          \A k \in Attached(LeadChild(i), u.a) :
            \E f \in Embedded(LeadObj, LeadProp(i)) :
              Has(f.a, k) /\ Get(f.a, k) = Get(u.a, k)

\* C14 for the properties named after the related table only
C14_NamedAfterTableKept ==
  Returned =>
    \A i \in 1..Len(relationships) :
      (FromLead(i) /\ SoleWriter(i) /\ Filtering(i) /\ ~OnPivot(i)) =>
        \A u \in Embedded(UnfilteredLeadObj(i), LeadProp(i)) :
          \A k \in Attached(LeadChild(i), u.a) \cap RelatedNames(LeadChild(i)) :
            \E f \in Embedded(LeadObj, LeadProp(i)) :
              Has(f.a, k) /\ Get(f.a, k) = Get(u.a, k)

----------------------------------------------------------------------------
(* Joins on a column folded by a pivot *)

\* column c of the lead row reaches the pivot: it is a key of the row and
\* passes the table's columnsFilter
ReachesPivot(c) ==
  /\ Has(LeadRow, c)
  /\ Len(Listed(call.leadTableId)) > 0 => InSeq(c, Listed(call.leadTableId))

\* the pivot indices of the lead row that produce an element, in pivot order:
\* those at which some group has a column that reaches the pivot
OwnIndices(i) ==
  SelectSeq(LeadSorted(i), LAMBDA idx :
    \E g \in 1..Len(LeadPivotInfo(i).pivot.groups) :
      \E c \in ColumnsOf(call.leadTableId) :
        /\ Chars(c) = Chars(LeadPivotInfo(i).pivot.groups[g].pattern) \o idx
        /\ ReachesPivot(c))

\* the child rows for the element at pivot index idx: those whose remote column
\* equals the lead row's value of the join group's column at idx
OwnJoinRows(i, idx) ==
  IF MapHas(LeadPivotInfo(i).siblingCols, idx)
       /\ Has(LeadRow, MapGet(LeadPivotInfo(i).siblingCols, idx))
    THEN JoinRows(i, Get(LeadRow, MapGet(LeadPivotInfo(i).siblingCols, idx)))
    ELSE <<>>

\* no other relationship from the lead table writes the property of i
OnlyWriter(i) ==
  \A j \in 1..Len(relationships) : (j # i /\ FromLead(j)) => LeadProp(j) # LeadProp(i)

\* element e of the pivot array holds the children of pivot index idx
HoldsChildrenOf(i, e, idx) ==
  IF Len(OwnJoinRows(i, idx)) = 0
    THEN ~Has(LeadPivotArray(i).a[e].a, LeadProp(i))
    ELSE /\ Has(LeadPivotArray(i).a[e].a, LeadProp(i))
         /\ {Strip(c) : c \in Embedded(LeadPivotArray(i).a[e].a, LeadProp(i))}
              = IF OneToOne(i)
                  THEN {ExpectedNode(i, OwnJoinRows(i, idx)[1])}
                  ELSE SetOf(ExpectedNodes(i, OwnJoinRows(i, idx)))

\* C15: a relationship joining on a column the lead table's pivot folds embeds
\* its children inside the pivot elements, not on the row: the element of each
\* pivot index holds the children matched on the row's value of the join
\* group's column at that index, also when the row is sparse or the
\* columnsFilter removed pivot columns.
C15_PivotAwareJoin ==
  Returned =>
    \A i \in 1..Len(relationships) :
      (FromLead(i) /\ OnPivot(i) /\ OnlyWriter(i)) =>
        /\ ~Has(LeadObj, LeadProp(i))
        /\ LeadPivotArray(i).t = "arr"
        /\ Len(LeadPivotArray(i).a) = Len(OwnIndices(i))
        /\ \A e \in 1..Len(OwnIndices(i)) : HoldsChildrenOf(i, e, OwnIndices(i)[e])

\* C15 for the rows in which every pivot index produces an element
C15_DenseRows ==
  Returned =>
    \A i \in 1..Len(relationships) :
      (FromLead(i) /\ OnPivot(i) /\ OnlyWriter(i)
         /\ Len(OwnIndices(i)) = Len(LeadSorted(i))) =>
        /\ ~Has(LeadObj, LeadProp(i))
        /\ LeadPivotArray(i).t = "arr"
        /\ Len(LeadPivotArray(i).a) = Len(OwnIndices(i))
        /\ \A e \in 1..Len(OwnIndices(i)) : HoldsChildrenOf(i, e, OwnIndices(i)[e])

C15_DenseWitness ==
  /\ Returned
  /\ \E i \in 1..Len(relationships) :
       /\ FromLead(i) /\ OnPivot(i) /\ OnlyWriter(i)
       /\ Len(OwnIndices(i)) = 2
       /\ \A e \in 1..2 : Len(OwnJoinRows(i, OwnIndices(i)[e])) > 0
       /\ OwnJoinRows(i, OwnIndices(i)[1]) # OwnJoinRows(i, OwnIndices(i)[2])

----------------------------------------------------------------------------
(* Properties of applyPivots, applySplits and applyTransforms *)

\* the call applied exactly one pivot, declared for the row's table
OnePivotApplies ==
  /\ pure.op \in {"pivots", "transforms"}
  /\ Len(pure.in.pivots) = 1
  /\ pure.in.pivots[1].tableId = pure.in.tableId

\* the columns some group of the pivot matches: prefix and a non-empty suffix
MatchedCols(groups, allColumns) ==
  {c \in SetOf(allColumns) :
     \E g \in 1..Len(groups) :
       /\ IsPrefix(Chars(groups[g].pattern), Chars(c))
       /\ Len(Chars(c)) > Len(Chars(groups[g].pattern))}

\* the column of a group at a suffix
ColAt(pattern, idx, allColumns) ==
  {c \in SetOf(allColumns) : Chars(c) = Chars(pattern) \o idx}

\* the groups that have, at suffix idx, a column that is a key of row
Contributing(row, groups, idx, allColumns) ==
  SelectSeq([g \in 1..Len(groups) |-> g],
            LAMBDA g : \E c \in ColAt(groups[g].pattern, idx, allColumns) : Has(row, c))

\* {group.propertyName: row[matchedColumn]} over the contributing groups
ExpectedElement(row, groups, idx, allColumns) ==
  [k \in 1..Len(Contributing(row, groups, idx, allColumns)) |->
     KV(groups[Contributing(row, groups, idx, allColumns)[k]].propertyName,
        Get(row, CHOOSE c \in ColAt(groups[Contributing(row, groups, idx, allColumns)[k]].pattern,
                                    idx, allColumns) : TRUE))]

\* one object per suffix of order that has a contributing group
ExpectedArray(row, groups, order, allColumns) ==
  [k \in 1..Len(SelectSeq(order, LAMBDA idx :
                  Len(Contributing(row, groups, idx, allColumns)) > 0)) |->
     Obj(ExpectedElement(row, groups,
           SelectSeq(order, LAMBDA idx :
             Len(Contributing(row, groups, idx, allColumns)) > 0)[k],
           allColumns))]

\* C16: applyPivots with a pivot of the row's table removes every column a
\* group matches, sets row[arrayName] to the array holding, for each suffix in
\* sorted order, the object of the groups whose column at the suffix is a key
\* of the row (no object for a suffix without one), and leaves every other
\* column as it was.
C16_ApplyPivots ==
  (OnePivotApplies /\ pure.op = "pivots") =>
    /\ \A c \in MatchedCols(pure.in.pivots[1].groups, pure.in.allColumns) : ~Has(pure.out, c)
    /\ Get(pure.out, pure.in.pivots[1].arrayName) =
         Arr(ExpectedArray(pure.in.row, pure.in.pivots[1].groups,
                           SortedIndices(pure.in.pivots[1].groups, pure.in.allColumns),
                           pure.in.allColumns))
    /\ SelectSeq(pure.out, LAMBDA e : e.k # pure.in.pivots[1].arrayName) =
         SelectSeq(pure.in.row, LAMBDA e :
           e.k \notin MatchedCols(pure.in.pivots[1].groups, pure.in.allColumns))

\* a sparse row: fewer elements than suffixes, beside columns left in place
C16_Witness ==
  /\ OnePivotApplies /\ pure.op = "pivots"
  /\ Get(pure.out, pure.in.pivots[1].arrayName).t = "arr"
  /\ Len(Get(pure.out, pure.in.pivots[1].arrayName).a) > 0
  /\ Len(Get(pure.out, pure.in.pivots[1].arrayName).a)
       < Len(SortedIndices(pure.in.pivots[1].groups, pure.in.allColumns))
  /\ Len(pure.out) > 1

\* the suffixes of the pivot's groups
Suffixes(groups, allColumns) ==
  UNION {{SubSeq(Chars(c), Len(Chars(groups[g].pattern)) + 1, Len(Chars(c))) :
            c \in MatchedCols(<<groups[g]>>, allColumns)} : g \in 1..Len(groups)}

\* x comes before y: by value when the whole set S is numeric, else by collation
WholeSetBefore(S, x, y) ==
  IF \A z \in S : IsNumeric(z) THEN DecimalVal(x) < DecimalVal(y)
  ELSE LocaleCompare(x, y) < 0

\* the set S as the sequence in which every earlier element comes before every
\* later one
WholeSetOrder(S) ==
  CHOOSE sq \in [1..Cardinality(S) -> S] :
    \A a, b \in 1..Cardinality(S) : a < b => WholeSetBefore(S, sq[a], sq[b])

\* C17: the pivot array follows the suffixes in numeric order when every suffix
\* of the set is a number and in lexicographic order of the whole set when any
\* is not.
C17_WholeSetOrder ==
  (OnePivotApplies /\ pure.op = "pivots") =>
    Get(pure.out, pure.in.pivots[1].arrayName) =
      Arr(ExpectedArray(pure.in.row, pure.in.pivots[1].groups,
                        WholeSetOrder(Suffixes(pure.in.pivots[1].groups, pure.in.allColumns)),
                        pure.in.allColumns))

\* C17 for the sets of suffixes that are all numbers
C17_NumericOrder ==
  (OnePivotApplies /\ pure.op = "pivots"
     /\ \A z \in Suffixes(pure.in.pivots[1].groups, pure.in.allColumns) : IsNumeric(z)) =>
    Get(pure.out, pure.in.pivots[1].arrayName) =
      Arr(ExpectedArray(pure.in.row, pure.in.pivots[1].groups,
                        WholeSetOrder(Suffixes(pure.in.pivots[1].groups, pure.in.allColumns)),
                        pure.in.allColumns))

\* suffixes 10, 1: numeric order differs from lexicographic order
C17_NumericWitness ==
  /\ OnePivotApplies /\ pure.op = "pivots"
  /\ Suffixes(pure.in.pivots[1].groups, pure.in.allColumns) = {<<"1", "0">>, <<"1">>, <<"2">>}
  /\ Len(Get(pure.out, pure.in.pivots[1].arrayName).a) = 2

\* the positions at which the delimiter occurs in cs, ascending (the
\* delimiters used do not overlap themselves)
Occurrences(cs, delim) ==
  SelectSeq([i \in 1..Len(cs) |-> i],
            LAMBDA i : i + Len(delim) - 1 <= Len(cs)
                       /\ SubSeq(cs, i, i + Len(delim) - 1) = delim)

\* the stretches of cs between the occurrences of the delimiter
Pieces(cs, delim) ==
  [k \in 1..(Len(Occurrences(cs, delim)) + 1) |->
     SubSeq(cs,
            IF k = 1 THEN 1 ELSE Occurrences(cs, delim)[k - 1] + Len(delim),
            IF k = Len(Occurrences(cs, delim)) + 1 THEN Len(cs)
            ELSE Occurrences(cs, delim)[k] - 1)]

\* t is cs without its leading and trailing white space
IsTrimOf(t, cs) ==
  /\ Len(t) > 0 => (t[1] \notin WhiteSpace /\ t[Len(t)] \notin WhiteSpace)
  /\ \E a \in 0..Len(cs) :
       /\ a + Len(t) <= Len(cs)
       /\ SubSeq(cs, a + 1, a + Len(t)) = t
       /\ \A i \in (1..a) \cup ((a + Len(t) + 1)..Len(cs)) : cs[i] \in WhiteSpace

\* v is the array of the trimmed pieces of the string cs
IsSplitOf(v, cs, delim) ==
  /\ v.t = "arr"
  /\ Len(v.a) = Len(Pieces(cs, delim))
  /\ \A i \in 1..Len(v.a) : v.a[i].t = "s" /\ IsTrimOf(v.a[i].s, Pieces(cs, delim)[i])

\* the splits of the call declared for the row's table and the column
SplitsOf(column) ==
  SelectSeq(pure.in.splits, LAMBDA sp : sp.tableId = pure.in.tableId /\ sp.column = column)

\* C18: applySplits replaces the string value of each column a split of the
\* row's table names by the array of its trimmed pieces; a value that is not a
\* string (number, array, null) is unchanged, and a column the row lacks gets no
\* key.
C18_ApplySplits ==
  pure.op = "splits" =>
    /\ Keys(pure.out) = Keys(pure.in.row)
    /\ \A k \in 1..Len(pure.in.row) :
         IF pure.in.row[k].v.t = "s" /\ Len(SplitsOf(pure.in.row[k].k)) > 0
           THEN IsSplitOf(pure.out[k].v, pure.in.row[k].v.s,
                          SplitsOf(pure.in.row[k].k)[1].delimiter)
           ELSE pure.out[k].v = pure.in.row[k].v

\* a string cut in three pieces that need trimming
C18_Witness ==
  /\ pure.op = "splits"
  /\ \E k \in 1..Len(pure.in.row) :
       /\ pure.in.row[k].v.t = "s"
       /\ Len(SplitsOf(pure.in.row[k].k)) > 0
       /\ Len(pure.out[k].v.a) = 3
       /\ \E i \in 1..3 : pure.out[k].v.a[i].s # Pieces(pure.in.row[k].v.s,
                                                    SplitsOf(pure.in.row[k].k)[1].delimiter)[i]

\* splits naming a number, an array and a column the row lacks
C18_WitnessOther ==
  /\ pure.op = "splits"
  /\ \E k \in 1..Len(pure.in.row) :
       pure.in.row[k].v.t \in {"n", "arr", "null"} /\ Len(SplitsOf(pure.in.row[k].k)) > 0
  /\ \E sp \in 1..Len(pure.in.splits) :
       /\ pure.in.splits[sp].tableId = pure.in.tableId
       /\ ~Has(pure.in.row, pure.in.splits[sp].column)

----------------------------------------------------------------------------
(* Transforms are scoped by table *)

\* the splits and pivots declared for a table other than t
OthersSplits(t) == SelectSeq(options.columnSplits, LAMBDA sp : sp.tableId # t)

OthersPivots(t) == SelectSeq(options.tablePivots, LAMBDA pv : pv.tableId # t)

\* the arguments of the call with the transforms of table t only
ScopedInput(t) ==
  [Input EXCEPT !.columnSplits = SelectSeq(options.columnSplits, LAMBDA sp : sp.tableId = t),
                !.tablePivots = SelectSeq(options.tablePivots, LAMBDA pv : pv.tableId = t)]

\* the arguments of the call without the transforms of table t
InputWithout(t) ==
  [Input EXCEPT !.columnSplits = OthersSplits(t), !.tablePivots = OthersPivots(t)]

\* the tables a split or a pivot is declared for
TransformedTables ==
  {options.columnSplits[k].tableId : k \in 1..Len(options.columnSplits)}
    \cup {options.tablePivots[k].tableId : k \in 1..Len(options.tablePivots)}

\* the built rows o1 and o2 of the lead table have the same keys and the same
\* values in the columns of the table
SameOwnColumns(o1, o2) ==
  /\ Keys(o1) = Keys(o2)
  /\ \A k \in 1..Len(o1) : o1[k].k \in ColumnsOf(call.leadTableId) => o1[k] = o2[k]

\* C19: the splits and pivots declared for a table leave the rows of every
\* other table as they are, in applySplits and applyPivots, in the projection
\* of every row, and in the document: without the transforms of another table
\* the lead row has the same keys and the same column values.
C19_ScopedByTable ==
  /\ \A t \in 1..Len(tables) : \A r \in 1..Len(tables[t].rows) :
       /\ applySplits(tables[t].rows[r], OthersSplits(tables[t].id), tables[t].id)
            = tables[t].rows[r]
       /\ applyPivots(tables[t].rows[r], OthersPivots(tables[t].id), tables[t].id,
                      tables[t].columns) = tables[t].rows[r]
       /\ projectRow(Input, tables[t].id, tables[t].rows[r])
            = projectRow(ScopedInput(tables[t].id), tables[t].id, tables[t].rows[r])
  /\ Returned =>
       \A u \in TransformedTables \ {call.leadTableId} :
         SameOwnColumns(LeadObj,
                        buildJoinedDocument(call.leadTableId, call.leadRowIndex,
                                            InputWithout(u)).doc.a[1].v.a)

\* a lead row with children, its string column named like the split column of
\* another table, and a pivot whose prefixes match the columns of another table
C19_Witness ==
  /\ Returned
  /\ \E sp \in 1..Len(options.columnSplits) :
       /\ options.columnSplits[sp].tableId # call.leadTableId
       /\ Get(LeadRow, options.columnSplits[sp].column).t = "s"
       /\ Get(LeadObj, options.columnSplits[sp].column).t = "s"
  /\ \E i \in 1..Len(relationships) : FromLead(i) /\ EmbeddedBy(i) # {}
  /\ \E pv \in 1..Len(options.tablePivots), t \in 1..Len(tables) :
       /\ options.tablePivots[pv].tableId # tables[t].id
       /\ MatchedCols(options.tablePivots[pv].groups, tables[t].columns) # {}

\* the split columns of the call that a group of its pivot folds, each with
\* the group and the suffix: string columns of the row named by a split of the
\* row's table
SplitAndPivoted ==
  {x \in [col : SetOf(Keys(pure.in.row)), g : 1..Len(pure.in.pivots[1].groups)] :
     /\ pure.in.row[CHOOSE k \in 1..Len(pure.in.row) : pure.in.row[k].k = x.col].v.t = "s"
     /\ \E sp \in 1..Len(pure.in.splits) :
          pure.in.splits[sp].tableId = pure.in.tableId /\ pure.in.splits[sp].column = x.col
     /\ x.col \in MatchedCols(<<pure.in.pivots[1].groups[x.g]>>, pure.in.allColumns)}

\* C20: applyTransforms is applyPivots of applySplits: a column that is split
\* and folded by the pivot is in some pivot element, under its group's
\* property, as the array of its pieces.
C20_SplitBeforePivot ==
  pure.op = "transforms" =>
    /\ pure.out = applyPivots(applySplits(pure.in.row, pure.in.splits, pure.in.tableId),
                              pure.in.pivots, pure.in.tableId, pure.in.allColumns)
    /\ OnePivotApplies =>
         \A x \in SplitAndPivoted :
           \E el \in SetOf(Get(pure.out, pure.in.pivots[1].arrayName).a) :
             IsSplitOf(Get(el.a, pure.in.pivots[1].groups[x.g].propertyName),
                       Get(pure.in.row, x.col).s,
                       SplitsOf(x.col)[1].delimiter)

\* a column cut in two pieces and folded into the pivot array
C20_Witness ==
  /\ pure.op = "transforms"
  /\ OnePivotApplies
  /\ \E x \in SplitAndPivoted :
       \E el \in SetOf(Get(pure.out, pure.in.pivots[1].arrayName).a) :
         /\ Get(el.a, pure.in.pivots[1].groups[x.g].propertyName).t = "arr"
         /\ Len(Get(el.a, pure.in.pivots[1].groups[x.g].propertyName).a) = 2

----------------------------------------------------------------------------
(* Two relationships writing one property *)

\* relationships i and j, in this order, are the two one-to-many relationships
\* from the lead table that write one property on the same path
MergePair(i, j) ==
  /\ i < j
  /\ FromLead(i) /\ FromLead(j)
  /\ ~OneToOne(i) /\ ~OneToOne(j)
  /\ LeadProp(i) = LeadProp(j)
  /\ OnPivot(i) = OnPivot(j)
  /\ \A k \in 1..Len(relationships) :
       (FromLead(k) /\ LeadProp(k) = LeadProp(i)) => k \in {i, j}

\* the children of pass i followed by those of pass j, each once
Merged(i, rowsI, j, rowsJ) ==
  uniqBy(ExpectedNodes(i, rowsI) \o ExpectedNodes(j, rowsJ))

\* the object obj holds under the property of i the merged children
HoldsMerged(obj, i, rowsI, j, rowsJ) ==
  IF Len(rowsI) + Len(rowsJ) = 0
    THEN ~Has(obj, LeadProp(i))
    ELSE /\ Get(obj, LeadProp(i)).t = "arr"
         /\ uniqBy(Strip(Get(obj, LeadProp(i))).a) = Merged(i, rowsI, j, rowsJ)

\* every pivot index of the lead row produces an element
DenseLead(i) == Len(OwnIndices(i)) = Len(LeadSorted(i))

\* C21: when two one-to-many relationships write the same property of a row,
\* the property holds the children of the first pass followed by those of the
\* second, each once, on the row (standard path) and inside each element of
\* the pivot array (pivot path).
C21_CardinalityMerge ==
  Returned =>
    \A i, j \in 1..Len(relationships) :
      MergePair(i, j) =>
        IF OnPivot(i)
          THEN (DenseLead(i) /\ LeadPivotInfo(i).pivot = LeadPivotInfo(j).pivot) =>
                 \A e \in 1..Len(OwnIndices(i)) :
                   HoldsMerged(LeadPivotArray(i).a[e].a,
                               i, OwnJoinRows(i, OwnIndices(i)[e]),
                               j, OwnJoinRows(j, OwnIndices(i)[e]))
          ELSE HoldsMerged(LeadObj, i, JoinRows(i, LocalValue(i)),
                           j, JoinRows(j, LocalValue(j)))

\* C21 on the standard path only
C21_StandardMerge ==
  Returned =>
    \A i, j \in 1..Len(relationships) :
      (MergePair(i, j) /\ ~OnPivot(i)) =>
        HoldsMerged(LeadObj, i, JoinRows(i, LocalValue(i)), j, JoinRows(j, LocalValue(j)))

\* two passes with different children, merged on the row
C21_StandardWitness ==
  /\ Returned
  /\ \E i, j \in 1..Len(relationships) :
       /\ MergePair(i, j) /\ ~OnPivot(i)
       /\ Len(JoinRows(i, LocalValue(i))) > 0
       /\ Len(JoinRows(j, LocalValue(j))) > 0
       /\ Len(Merged(i, JoinRows(i, LocalValue(i)), j, JoinRows(j, LocalValue(j))))
            > Len(JoinRows(j, LocalValue(j)))
       /\ Len(Get(LeadObj, LeadProp(i)).a) > Len(JoinRows(j, LocalValue(j)))

----------------------------------------------------------------------------
(* The inputs are left as they were *)

\* a step that builds a document
Builds == phase' \in {"built", "export"}

\* what a transform leaves of each row of the tables
RowsUntouched ==
  \A t \in 1..Len(tables) : \A r \in 1..Len(tables[t].rows) :
    /\ RowAfter(tables[t].rows[r],
                applySplits(tables[t].rows[r], options.columnSplits, tables[t].id))
         = tables[t].rows[r]
    /\ RowAfter(tables[t].rows[r],
                applyPivots(tables[t].rows[r], options.tablePivots, tables[t].id,
                            tables[t].columns))
         = tables[t].rows[r]

----------------------------------------------------------------------------
(* The direction a relationship is declared in *)

\* the reverse declaration of rel, with the same attributes
ReverseDeclaration(rel) ==
  [rel EXCEPT !.sourceTableId = rel.targetTableId, !.sourceColumn = rel.targetColumn,
              !.targetTableId = rel.sourceTableId, !.targetColumn = rel.sourceColumn]

\* the outcome of the call with relationship i declared in the other direction
OutcomeReversed(i) ==
  buildJoinedDocument(call.leadTableId, call.leadRowIndex,
                      [Input EXCEPT !.relationships[i] = ReverseDeclaration(relationships[i])])

\* relationship i joins two different tables
TwoTables(i) == relationships[i].sourceTableId # relationships[i].targetTableId

C23_WitnessSource ==
  /\ Returned /\ phase = "built" /\ ~again
  /\ \E i \in 1..Len(relationships) :
       /\ TwoTables(i)
       /\ relationships[i].sourceTableId = call.leadTableId
       /\ FromLead(i)
       /\ EmbeddedBy(i) # {}

----------------------------------------------------------------------------
(* Several pivots on one table *)

\* applyPivots was called with several pivots, all of the row's table
SeveralPivotsApply ==
  /\ pure.op = "pivots"
  /\ Len(pure.in.pivots) >= 2
  /\ \A k \in 1..Len(pure.in.pivots) : pure.in.pivots[k].tableId = pure.in.tableId

\* what pivot k writes under its arrayName when it is the only pivot applied
AlonePivot(k) ==
  Get(applyPivots(pure.in.row, <<pure.in.pivots[k]>>, pure.in.tableId, pure.in.allColumns),
      pure.in.pivots[k].arrayName)

\* no column is folded by two of the pivots, and no two write the same array
DisjointPivots ==
  \A j, k \in 1..Len(pure.in.pivots) :
    j # k =>
      /\ MatchedCols(pure.in.pivots[j].groups, pure.in.allColumns)
           \cap MatchedCols(pure.in.pivots[k].groups, pure.in.allColumns) = {}
      /\ pure.in.pivots[j].arrayName # pure.in.pivots[k].arrayName

\* C24: for pivots [P1, P2] on one table, the array written under each pivot's
\* arrayName equals the array that pivot would produce if it were the only
\* pivot applied to the row.
C24_IndependentPivots ==
  SeveralPivotsApply =>
    \A k \in 1..Len(pure.in.pivots) :
      Get(pure.out, pure.in.pivots[k].arrayName) = AlonePivot(k)

\* pivots that fold different columns do write what each would write alone
C24_DisjointPivots ==
  (SeveralPivotsApply /\ DisjointPivots) =>
    \A k \in 1..Len(pure.in.pivots) :
      Get(pure.out, pure.in.pivots[k].arrayName) = AlonePivot(k)

C24_DisjointWitness ==
  /\ SeveralPivotsApply
  /\ DisjointPivots
  /\ \A k \in 1..Len(pure.in.pivots) : AlonePivot(k).t = "arr" /\ Len(AlonePivot(k).a) > 0

----------------------------------------------------------------------------
(* Removing a table *)

\* out is in without the entries at the positions removed, in the order of in
KeptInOrder(in, out, removed) ==
  /\ Len(out) = Len(in) - Cardinality(removed)
  /\ \A i \in (1..Len(in)) \ removed :
       out[i - Cardinality({j \in removed : j < i})] = in[i]

\* C25: after removeTable(tableId, tables, nodes, edges) no returned table or
\* node has that id and no returned edge has it as source or target, every
\* other table, node and edge is kept in order, and the returned rootTableId
\* and leadTableId are the id of the first remaining table, or '' when none
\* remains.
C25_RemoveTableCascades ==
  pure.op = "remove" =>
    /\ KeptInOrder(pure.in.tables, pure.out.tables,
                   {i \in 1..Len(pure.in.tables) : pure.in.tables[i].id = pure.in.tableId})
    /\ KeptInOrder(pure.in.nodes, pure.out.nodes,
                   {i \in 1..Len(pure.in.nodes) : pure.in.nodes[i].id = pure.in.tableId})
    /\ KeptInOrder(pure.in.edges, pure.out.edges,
                   {i \in 1..Len(pure.in.edges) :
                      \/ pure.in.edges[i].source = pure.in.tableId
                      \/ pure.in.edges[i].target = pure.in.tableId})
    /\ pure.out.rootTableId
         = (IF Len(pure.out.tables) > 0 THEN pure.out.tables[1].id ELSE "")
    /\ pure.out.leadTableId = pure.out.rootTableId

\* the first table is removed with its node, an edge leaving it and an edge
\* reaching it; another table becomes the root
C25_Witness ==
  /\ pure.op = "remove"
  /\ Len(pure.in.tables) >= 2
  /\ pure.in.tables[1].id = pure.in.tableId
  /\ \E n \in 1..Len(pure.in.nodes) : pure.in.nodes[n].id = pure.in.tableId
  /\ \E e \in 1..Len(pure.in.edges) : pure.in.edges[e].source = pure.in.tableId
  /\ \E e \in 1..Len(pure.in.edges) : pure.in.edges[e].target = pure.in.tableId
  /\ pure.out.rootTableId = pure.in.tables[2].id

\* the last table is removed
C25_WitnessEmpty ==
  /\ pure.op = "remove"
  /\ Len(pure.in.tables) = 1
  /\ pure.in.tables[1].id = pure.in.tableId
  /\ pure.out.rootTableId = ""

----------------------------------------------------------------------------
(* One expansion for each (table, row, depth) *)

\* the value w is v or is held somewhere inside v
RECURSIVE OccursIn(_, _)
OccursIn(w, v) ==
  \/ v = w
  \/ v.t = "arr" /\ \E e \in 1..Len(v.a) : OccursIn(w, v.a[e])
  \/ v.t = "obj" /\ \E e \in 1..Len(v.a) : OccursIn(w, v.a[e].v)

\* the projected and transformed row of a visited key, as an object
ProjectedOf(key) ==
  Obj(projectRow(Input, key[1], TableGet(tables, key[1]).rows[key[2] + 1]))

\* nothing cuts or replaces what a relationship embeds: no includedColumns,
\* no one-to-one pick, no join on a folded column
PlainEmbedding ==
  \A i \in 1..Len(relationships) :
    /\ ~IsSome(relationships[i].includedColumns)
    /\ relationships[i].type # Some("one-to-one")
    /\ \A t \in {relationships[i].sourceTableId, relationships[i].targetTableId} :
         ~HasPivotInfo(Input, t, LocalCol(relationships[i], t))

\* C26: within one call each (tableId, row index, depth) triple is expanded
\* (has its relationships traversed) at most once and is then in the visited
\* set; every later encounter of a triple comes after its expansion and returns
\* the projected and transformed row with no embedded children; a row expanded
\* twice is expanded at two different depths.
C26_ExpandedOnce ==
  Returned =>
    /\ \A m, n \in 1..Len(result.log) : m # n => result.log[m] # result.log[n]
    /\ SetOf(result.log) = result.visited
    /\ \A h \in 1..Len(result.hits) : result.hits[h] \in result.visited
    /\ \A m, n \in 1..Len(result.log) :
         (m # n /\ result.log[m][1] = result.log[n][1] /\ result.log[m][2] = result.log[n][2])
           => result.log[m][3] # result.log[n][3]
    /\ PlainEmbedding =>
         \A h \in 1..Len(result.hits) : OccursIn(ProjectedOf(result.hits[h]), result.doc)

\* the lead row was met again deeper in the document: there it is embedded
\* as projected, without the children the lead object holds
C26_Witness ==
  /\ Returned
  /\ PlainEmbedding
  /\ \E h \in 1..Len(result.hits) :
       /\ result.hits[h] = <<call.leadTableId, call.leadRowIndex, 0>>
       /\ OccursIn(ProjectedOf(result.hits[h]), result.doc)
       /\ Obj(LeadObj) # ProjectedOf(result.hits[h])

\* one row expanded at two depths
C26_WitnessDepths ==
  /\ Returned
  /\ \E m, n \in 1..Len(result.log) :
       /\ result.log[m][1] = result.log[n][1]
       /\ result.log[m][2] = result.log[n][2]
       /\ result.log[m][3] # result.log[n][3]

----------------------------------------------------------------------------
(* Embedded arrays hold no duplicates *)

\* no two entries of arr serialize to the same text
Distinct(arr) ==
  \A m, n \in 1..Len(arr) : m # n => Stringify(arr[m]) # Stringify(arr[n])

\* in the entries obj of a row of table t every array a relationship has
\* embedded holds distinct entries; so do the arrays embedded in its entries
\* and in the elements of the row's other arrays
RECURSIVE NoDuplicates(_, _)
NoDuplicates(obj, t) ==
  \A e \in 1..Len(obj) :
    IF IsEmbedding(t, obj[e].k)
      THEN /\ obj[e].v.t = "arr" => Distinct(obj[e].v.a)
           /\ \A c \in 1..Len(Elems(obj[e].v)) :
                Elems(obj[e].v)[c].t = "obj" =>
                  NoDuplicates(Elems(obj[e].v)[c].a, EmbeddedTable(t, obj[e].k))
      ELSE obj[e].v.t = "arr" =>
             \A c \in 1..Len(obj[e].v.a) :
               obj[e].v.a[c].t = "obj" => NoDuplicates(obj[e].v.a[c].a, t)

\* the place in nodes where an entry serializing as v comes first
FirstAt(nodes, v) ==
  CHOOSE k \in 1..Len(nodes) :
    /\ Stringify(nodes[k]) = Stringify(v)
    /\ \A j \in 1..(k - 1) : Stringify(nodes[j]) # Stringify(v)

\* arr holds each of the nodes once, in the order they first occur in nodes
FirstOccurrences(arr, nodes) ==
  /\ Distinct(arr)
  /\ \A a \in 1..Len(arr) : \E k \in 1..Len(nodes) : Stringify(nodes[k]) = Stringify(arr[a])
  /\ \A k \in 1..Len(nodes) : \E a \in 1..Len(arr) : Stringify(arr[a]) = Stringify(nodes[k])
  /\ \A a, b \in 1..Len(arr) : a < b => FirstAt(nodes, arr[a]) < FirstAt(nodes, arr[b])

\* relationship i embeds rows under the lead row that hold nothing embedded
LeafArray(i) ==
  /\ FromLead(i) /\ ~OnPivot(i) /\ ~OneToOne(i) /\ SoleWriter(i)
  /\ Has(LeadObj, LeadProp(i))
  /\ Get(LeadObj, LeadProp(i)).t = "arr"
  /\ Strip(Get(LeadObj, LeadProp(i))) = Get(LeadObj, LeadProp(i))

\* C27: every array a one-to-many relationship attaches anywhere in the
\* document holds no two entries that serialize identically, and holds its
\* entries in first-occurrence order: child rows that are built to the same
\* content appear once, where the first of them stands.
C27_NoDuplicateEntries ==
  Returned =>
    /\ NoDuplicates(LeadObj, call.leadTableId)
    /\ \A i \in 1..Len(relationships) :
         LeafArray(i) =>
           FirstOccurrences(Get(LeadObj, LeadProp(i)).a,
                            ExpectedNodes(i, JoinRows(i, LocalValue(i))))

\* two different child rows were built to the same content and appear once
C27_Witness ==
  /\ Returned
  /\ \E i \in 1..Len(relationships) :
       /\ LeafArray(i)
       /\ Len(Get(LeadObj, LeadProp(i)).a) < Len(JoinRows(i, LocalValue(i)))
       /\ Len(Get(LeadObj, LeadProp(i)).a) >= 1

\* an array of several entries embedded below the lead row's children
C27_WitnessNested ==
  /\ Returned
  /\ \E i \in 1..Len(relationships) :
       /\ FromLead(i) /\ ~OnPivot(i) /\ Has(LeadObj, LeadProp(i))
       /\ \E c \in 1..Len(Elems(Get(LeadObj, LeadProp(i)))) :
            LET node == Elems(Get(LeadObj, LeadProp(i)))[c]
            IN node.t = "obj" /\
               \E e \in 1..Len(node.a) :
                 /\ IsEmbedding(LeadChild(i), node.a[e].k)
                 /\ node.a[e].v.t = "arr"
                 /\ Len(node.a[e].v.a) >= 2

----------------------------------------------------------------------------
(* Matching reads the raw row *)

\* the outcome of the call with no column filter and no split declared
OutcomeUnprojected ==
  buildJoinedDocument(call.leadTableId, call.leadRowIndex,
                      [Input EXCEPT !.columnsFilter = <<>>, !.columnSplits = <<>>])

\* the options change what a row shows
Projecting == options.columnsFilter # <<>> \/ options.columnSplits # <<>>

\* some relationship joins on a column that a pivot of its table folds
PivotJoinDeclared ==
  \E i \in 1..Len(relationships) :
    \E t \in {relationships[i].sourceTableId, relationships[i].targetTableId} :
      HasPivotInfo(Input, t, LocalCol(relationships[i], t))

\* C28: the child rows matched and built for the relationships of a call are
\* found from the raw table rows: with columnsFilter and columnSplits removed
\* the same rows are expanded and met again, in the same order; only the
\* columns shown differ.
C28_RawRowMatching ==
  (Returned /\ phase = "built" /\ ~again) =>
    /\ OutcomeUnprojected.log = result.log
    /\ OutcomeUnprojected.hits = result.hits

\* the same, where no relationship joins on a folded column
C28_RawRowStandard ==
  (Returned /\ phase = "built" /\ ~again /\ ~PivotJoinDeclared) =>
    /\ OutcomeUnprojected.log = result.log
    /\ OutcomeUnprojected.hits = result.hits

\* the filter drops the lead table's join column and children are embedded
C28_StandardWitness ==
  /\ Returned /\ phase = "built" /\ ~again /\ ~PivotJoinDeclared
  /\ \E i \in 1..Len(relationships) :
       /\ FromLead(i)
       /\ Len(Listed(call.leadTableId)) > 0
       /\ ~InSeq(LocalCol(relationships[i], call.leadTableId), Listed(call.leadTableId))
       /\ EmbeddedBy(i) # {}
  /\ Len(result.log) >= 2

----------------------------------------------------------------------------
(* Every match built in full *)

\* the rows embedded anywhere in the entries obj of a row of table t, each with
\* its table
RECURSIVE EmbeddedNodes(_, _)
EmbeddedNodes(obj, t) ==
  UNION { IF IsEmbedding(t, obj[e].k)
            THEN UNION { IF Elems(obj[e].v)[c].t = "obj"
                           THEN {<<EmbeddedTable(t, obj[e].k), Elems(obj[e].v)[c]>>}
                                  \cup EmbeddedNodes(Elems(obj[e].v)[c].a,
                                                     EmbeddedTable(t, obj[e].k))
                           ELSE {}
                         : c \in 1..Len(Elems(obj[e].v)) }
            ELSE {}
          : e \in 1..Len(obj) }

\* every row was expanded at depth 0: no recursive edge was followed
AllAtDepthZero == \A m \in 1..Len(result.log) : result.log[m][3] = 0

\* C29: any two embedded occurrences of one child row at depth 0, reached from
\* different parent rows or through different relationships along
\* non-recursive edges, carry identical embedded children.
C29_BuiltInFull ==
  (Returned /\ PlainEmbedding /\ options = NoOptions /\ AllAtDepthZero) =>
    \A x, y \in EmbeddedNodes(LeadObj, call.leadTableId) :
      (x[1] = y[1] /\ Strip(x[2]) = Strip(y[2])) => x[2] = y[2]

----------------------------------------------------------------------------
(* The history stacks *)

PastBounded == Len(history.past) <= history.maxSize

PushClearsRedo == history.op = "push" => history.future = <<>>

UndoNeedsTwo ==
  (history.op = "undo" /\ Len(history.before.past) <= 1) =>
    /\ history.past = history.before.past
    /\ history.future = history.before.future
    /\ history.returned = None

FlagsFollow ==
  /\ history.canUndo = (Len(history.past) > 1)
  /\ history.canRedo = (Len(history.future) > 0)

\* C30: for every maxSize >= 1, after any sequence of push, undo and redo the
\* past stack holds at most maxSize snapshots; push empties the redo stack;
\* undo changes nothing and returns undefined when at most one snapshot
\* remains; canUndo is (past length > 1) and canRedo is (future non-empty).
C30_HistoryBound ==
  history.maxSize >= 1 =>
    (PastBounded /\ PushClearsRedo /\ UndoNeedsTwo /\ FlagsFollow)

\* every part holds from maxSize 2 on, and all but the bound for maxSize 1
C30_HistoryBoundFromTwo ==
  /\ history.maxSize >= 2 => PastBounded
  /\ PushClearsRedo /\ UndoNeedsTwo /\ FlagsFollow

\* a push on a full past stack dropped the oldest snapshot
C30_FromTwoWitness ==
  /\ history.maxSize >= 2
  /\ history.op = "push"
  /\ Len(history.before.past) = history.maxSize
  /\ Len(history.past) = history.maxSize
  /\ history.past[1] = history.before.past[2]

\* an undo with one snapshot left, after a redo stack had been filled
C30_UndoWitness ==
  /\ history.op = "undo"
  /\ Len(history.before.past) = 1
  /\ Len(history.future) > 0
  /\ history.returned = None

====
